---- MODULE Spec2Model ----
(***************************************************************************)
(* State-machine model of propagate_style_guides.py: one run of main() is  *)
(* a setup step followed by the per-repo loop, one action per operation    *)
(* of the loop body.  The filesystem is a finite tree of paths (tuples of  *)
(* path components) with a content number per file (0 = absent).          *)
(***************************************************************************)
EXTENDS Integers, Sequences, FiniteSets, TLC

\* ------------------------------------------------------------------------
\* Editable file lists.  STYLE_FILES and TEST_SCRIPTS keep two members each
\* of the lists of the source (every member runs the same loop body).
\* ------------------------------------------------------------------------
STYLE_FILES == <<"PYTHON_STYLE.md", "REPO_STYLE.md">>
DEVEL_SCRIPTS == <<"commit_changelog.py", "submit_to_pypi.py">>
TEST_SCRIPTS == <<"git_file_utils.py", "test_import_star.py">>
DEPRECATED_TEST_SCRIPTS == <<"run_pyflakes.sh", "test_pyflakes.py">>
DEPRECATED_GITIGNORE_ENTRIES ==
  <<"shebang_report.txt", "pyflakes.txt", "bandit.txt", "pyright.txt",
    "ascii_compliance.txt">>
REQUIRED_GITIGNORE_ENTRIES ==
  <<"report_shebang.txt", "report_pyflakes.txt", "report_ascii_compliance.txt",
    ".DS_Store", "report_bandit.txt", "report_pyright.txt">>
SKIP_WALK_DIRS ==
  {".git", ".mypy_cache", ".pytest_cache", "old_shell_folder", ".venv",
   ".system", "__pycache__", "build", "dist", "node_modules", "venv"}
CounterNames ==
  {"copied", "updated", "updated_agents", "created_agents", "created_changelog",
   "skipped_same", "skipped_source", "skipped_non_repo", "errors",
   "copied_tests", "updated_tests", "skipped_same_tests",
   "skipped_source_tests", "skipped_tests_no_python",
   "removed_deprecated_tests", "created_conftest", "git_perms_changed",
   "git_perms_unchanged", "created_tests_dirs", "created_devel_dirs",
   "skipped_source_devel", "gitignore_created", "gitignore_updated",
   "gitignore_lines_added", "gitignore_cleaned",
   "gitignore_duplicates_removed", "gitignore_whitespace_cleaned",
   "gitignore_deprecated_removed", "gitignore_deprecated_entries_removed",
   "skipped_same_devel", "copied_devel", "updated_devel",
   "skipped_devel_no_pyproject"}

\* ------------------------------------------------------------------------
\* Bounds of the model
\* ------------------------------------------------------------------------
\* I/O failures the environment may inject in one behaviour (SpecF)
MaxFaults == 1

\* ------------------------------------------------------------------------
\* Sequence helpers
\* ------------------------------------------------------------------------
Range(s) == {s[i] : i \in 1..Len(s)}
Last(s) == s[Len(s)]

\* ------------------------------------------------------------------------
\* The filesystem universe
\* ------------------------------------------------------------------------
\* base_dir is ~/nsh; these are its entries.  "ext" is a directory outside
\* base_dir (a --source-dir argument, or the repo that holds the script).
BaseDirs == {"junk-drawer", "repoB"}
Roots == BaseDirs \cup {"ext"}
\* names that may occur in a tests directory, in sorted() order
SortedTestNames ==
  <<"conftest.py", "git_file_utils.py", "run_pyflakes.sh", "test_data.txt",
    "test_import_dot.py", "test_import_star.py", "test_pyflakes.py">>
\* files outside the managed directories, as paths below the repo root
ExtraFiles ==
  {<<"src", "main.py">>, <<"build", "lib.py">>, <<"pyproject.toml">>,
   <<"src", "pyproject.toml">>, <<"build", "pyproject.toml">>,
   <<".tox", "pyproject.toml">>}
RelFiles ==
  {<<"docs", s>> : s \in Range(STYLE_FILES)}
  \cup {<<s>> : s \in Range(STYLE_FILES)}
  \cup {<<"tests", t>> : t \in Range(SortedTestNames)}
  \cup {<<"devel", d>> : d \in Range(DEVEL_SCRIPTS)}
  \cup {<<"docs", "CHANGELOG.md">>}
  \cup ExtraFiles
AllFiles == {<<r>> \o rel : r \in Roots, rel \in RelFiles}

\* str.startswith('test_'), str.endswith('.py'), str.startswith('.') on the
\* names of the universe
StartsWithTest(name) ==
  name \in {"test_data.txt", "test_import_dot.py", "test_import_star.py",
            "test_pyflakes.py"}
EndsWithPy(name) ==
  name \in {"conftest.py", "git_file_utils.py", "test_import_dot.py",
            "test_import_star.py", "test_pyflakes.py", "main.py", "lib.py",
            "commit_changelog.py", "submit_to_pypi.py"}
StartsWithDot(name) ==
  name \in {".git", ".tox", ".venv", ".system", ".mypy_cache", ".pytest_cache",
            ".cache"}

\* os.path.join
Join(dir, name) == dir \o <<name>>

\* ------------------------------------------------------------------------
\* .gitignore text.  A line is its leading whitespace, its text and its
\* trailing whitespace; a file is its lines and whether the last one ends
\* with a newline.  A whitespace-only line has text "" and trail TRUE.
\* ------------------------------------------------------------------------
MkLine(lead, text, trail) == [lead |-> lead, text |-> text, trail |-> trail]
EntryLine(e) == MkLine(FALSE, e, FALSE)
BlankLine == MkLine(FALSE, "", FALSE)
\* str.strip() and str.rstrip()
Strip(l) == MkLine(FALSE, l.text, FALSE)
RStrip(l) == IF l.text = "" THEN BlankLine ELSE MkLine(l.lead, l.text, FALSE)
NoFile == [exists |-> FALSE, lines |-> <<>>, final_nl |-> TRUE]
TextFile(lines, final_nl) ==
  [exists |-> TRUE, lines |-> lines, final_nl |-> final_nl]
MapSeq(s, Op(_)) == [i \in 1..Len(s) |-> Op(s[i])]

\* faulty variant: blank lines are dropped with the deprecated entries
RECURSIVE FilterDeprecated_no_blank(_, _)
FilterDeprecated_no_blank(lines, entries_set) ==
  IF lines = <<>> THEN <<>>
  ELSE IF Strip(Head(lines)) \in entries_set \/ RStrip(Head(lines)) = BlankLine
       THEN FilterDeprecated_no_blank(Tail(lines), entries_set)
       ELSE <<RStrip(Head(lines))>> \o FilterDeprecated_no_blank(Tail(lines), entries_set)
\* remove_gitignore_entries: [file, removed]
RECURSIVE FilterDeprecated(_, _)
FilterDeprecated(lines, entries_set) ==
  IF lines = <<>> THEN <<>>
  ELSE IF Strip(Head(lines)) \in entries_set
       THEN FilterDeprecated(Tail(lines), entries_set)
       ELSE <<RStrip(Head(lines))>> \o FilterDeprecated(Tail(lines), entries_set)
remove_gitignore_entries(gi, entries, dry) ==
  IF ~gi.exists THEN [file |-> gi, removed |-> 0]
  ELSE LET entries_set == {Strip(EntryLine(e)) : e \in Range(entries)}
           filtered_lines == FilterDeprecated(gi.lines, entries_set)
           removed_count ==
             Cardinality({i \in 1..Len(gi.lines) : Strip(gi.lines[i]) \in entries_set})
       IN IF removed_count = 0 THEN [file |-> gi, removed |-> 0]
          ELSE IF dry THEN [file |-> gi, removed |-> removed_count]
          ELSE [file |-> TextFile(filtered_lines, TRUE), removed |-> removed_count]

\* faulty variant: a blank line is kept once, like any other line
RECURSIVE UniqueLines_blank_once(_, _)
UniqueLines_blank_once(lines, seen) ==
  IF lines = <<>> THEN <<>>
  ELSE IF Head(lines) \notin seen
       THEN <<Head(lines)>> \o UniqueLines_blank_once(Tail(lines), seen \cup {Head(lines)})
       ELSE UniqueLines_blank_once(Tail(lines), seen)
\* deduplicate_gitignore: [file, duplicates_removed, whitespace_cleaned]
RECURSIVE UniqueLines(_, _)
UniqueLines(lines, seen) ==
  IF lines = <<>> THEN <<>>
  ELSE IF Head(lines) = BlankLine
       THEN <<Head(lines)>> \o UniqueLines(Tail(lines), seen)
       ELSE IF Head(lines) \notin seen
            THEN <<Head(lines)>> \o UniqueLines(Tail(lines), seen \cup {Head(lines)})
            ELSE UniqueLines(Tail(lines), seen)
deduplicate_gitignore(gi, dry) ==
  IF ~gi.exists THEN [file |-> gi, duplicates |-> 0, whitespace |-> FALSE]
  ELSE LET original_lines == gi.lines
           stripped_lines == MapSeq(original_lines, RStrip)
           unique_lines == UniqueLines(stripped_lines, {})
           duplicates_removed == Len(stripped_lines) - Len(unique_lines)
           whitespace_cleaned ==
             \E i \in 1..Len(original_lines) : original_lines[i] # stripped_lines[i]
       IN IF duplicates_removed = 0 /\ ~whitespace_cleaned
          THEN [file |-> gi, duplicates |-> 0, whitespace |-> FALSE]
          ELSE IF dry
          THEN [file |-> gi, duplicates |-> duplicates_removed,
                whitespace |-> whitespace_cleaned]
          ELSE [file |-> TextFile(unique_lines, TRUE),
                duplicates |-> duplicates_removed,
                whitespace |-> whitespace_cleaned]

\* faulty variant: every entry is appended, present already or not
ensure_gitignore_entries_all(gi, entries, dry) ==
  IF dry THEN [file |-> gi, created |-> ~gi.exists, lines_added |-> Len(entries)]
  ELSE [file |-> TextFile(gi.lines \o MapSeq(entries, EntryLine), TRUE),
        created |-> ~gi.exists, lines_added |-> Len(entries)]
\* ensure_gitignore_entries: [file, created, lines_added]
ensure_gitignore_entries(gi, entries, dry) ==
  LET file_exists == gi.exists
      existing_lines == IF file_exists THEN MapSeq(gi.lines, Strip) ELSE <<>>
      missing_entries ==
        SelectSeq(entries, LAMBDA e : EntryLine(e) \notin Range(existing_lines))
  IN IF missing_entries = <<>>
     THEN [file |-> gi, created |-> FALSE, lines_added |-> 0]
     ELSE IF dry
     THEN [file |-> gi, created |-> ~file_exists,
           lines_added |-> Len(missing_entries)]
     ELSE [file |-> TextFile(gi.lines \o MapSeq(missing_entries, EntryLine), TRUE),
           created |-> ~file_exists, lines_added |-> Len(missing_entries)]

\* process_gitignore, lines 879-934: the eight counts from the three results
gitignore_counts(p1, p2, p3) ==
  LET cleaned == p2.duplicates > 0 \/ p2.whitespace
  IN [created |-> IF p3.created THEN 1 ELSE 0,
      updated |-> IF ~p3.created /\ p3.lines_added > 0 THEN 1 ELSE 0,
      lines_added |-> p3.lines_added,
      cleaned |-> IF cleaned THEN 1 ELSE 0,
      dup_removed |-> IF cleaned THEN p2.duplicates ELSE 0,
      whitespace_cleaned |-> IF p2.whitespace THEN 1 ELSE 0,
      deprecated_removed_files |-> IF p1.removed > 0 THEN 1 ELSE 0,
      deprecated_removed_entries |-> p1.removed]
\* the three passes in order, each reading the file the one before it left
gitignore_passes(gi, deprecated, required, dry) ==
  LET p1 == remove_gitignore_entries(gi, deprecated, dry)
      p2 == deduplicate_gitignore(p1.file, dry)
      p3 == ensure_gitignore_entries(p2.file, required, dry)
  IN [file |-> p3.file, counts |-> gitignore_counts(p1, p2, p3)]
\* process_gitignore: the passes with the two module-level lists
process_gitignore(gi, dry) ==
  LET r == gitignore_passes(gi, DEPRECATED_GITIGNORE_ENTRIES,
                            REQUIRED_GITIGNORE_ENTRIES, dry)
  IN [file |-> r.file,
      created |-> r.counts.created,
      updated |-> r.counts.updated,
      lines_added |-> r.counts.lines_added,
      cleaned |-> r.counts.cleaned,
      dup_removed |-> r.counts.dup_removed,
      whitespace_cleaned |-> r.counts.whitespace_cleaned,
      deprecated_removed_files |-> r.counts.deprecated_removed_files,
      deprecated_removed_entries |-> r.counts.deprecated_removed_entries]

\* ------------------------------------------------------------------------
\* State
\* ------------------------------------------------------------------------
VARIABLES
  files,            \* [AllFiles -> content]: "absent", "canon", "stale", "empty"
  dirs,             \* the directories that exist (paths)
  gitignore,        \* [Roots -> .gitignore text]
  gitmeta,          \* [Roots -> the .git entry: kind, modes, nostat]
  agents,           \* [Roots -> AGENTS.md text]
  cli,              \* the arguments: source_dir, repo_name ("none" when not given)
  plan,             \* the dry_run flag of each run of the behaviour
  run,              \* the run in progress, an index of plan
  script_home,      \* the directory holding the script ("none": no style guides above it)
  platform,         \* sys.platform: "darwin" or "linux"
  call,             \* a function called on its own: its name, arguments and results
  scan_order,       \* the order in which os.scandir(base_dir) yields its entries
  pc,               \* the position of main()
  source_dir, source_map, devel_source_map, test_source_map, test_scripts,
  repo_dirs, ri,    \* the repos to process and the index of the current one
  fi,               \* the index of the current file of a file loop
  repo_python,      \* the value of repo_has_python_files held by main()
  counts,           \* the counters of the run in progress
  prev_counts,      \* the counters of the run before it
  fs0,              \* the filesystem as the run in progress found it
  py0,              \* whether the current repo held a Python file when the loop reached it
  last,             \* the last file-synchronization step: its inputs and its outcome
  faults,           \* I/O failures injected in the run in progress
  fault_budget      \* I/O failures the environment may still inject

fsvars == <<files, dirs, gitignore, gitmeta, agents>>
envvars == <<cli, plan, script_home, scan_order, platform, call>>
faultvars == <<faults, fault_budget>>
mapvars == <<source_dir, source_map, devel_source_map, test_source_map, test_scripts>>
vars == <<files, dirs, gitignore, gitmeta, agents, cli, plan, run, script_home,
          platform, call, scan_order, pc, source_dir, source_map, devel_source_map,
          test_source_map, test_scripts, repo_dirs, ri, fi, repo_python, counts,
          prev_counts, fs0, py0, last, faults, fault_budget>>

FS == [files |-> files, dirs |-> dirs, gitignore |-> gitignore,
       gitmeta |-> gitmeta, agents |-> agents]
dry_run == plan[run]
is_macos == platform = "darwin"
NoCall == [fn |-> "none"]
ZeroCounts == [c \in CounterNames |-> 0]
Inc(c, name) == [c EXCEPT ![name] = @ + 1]
Add(c, name, n) == [c EXCEPT ![name] = @ + n]
NoStep == [run |-> 0, repo |-> "none", cls |-> "none", file |-> "none",
           outcome |-> "none", gated |-> FALSE, dst_is_src |-> FALSE,
           dest_exists |-> FALSE, is_same |-> FALSE, wrote |-> FALSE,
           dest |-> <<>>, source |-> <<>>, py0 |-> FALSE]

\* os.path.isfile, os.path.isdir, os.path.exists on the paths of the universe
isfile(p) == p \in DOMAIN files /\ files[p] # "absent"
isdir(p) == p \in dirs
exists(p) == isfile(p) \/ isdir(p)

\* the walk of repo_has_pyproject_toml and repo_has_python_files: os.walk
\* from the repo root, pruning SKIP_WALK_DIRS and dot-directories
Walked(p) ==
  \A i \in 2..(Len(p) - 1) : p[i] \notin SKIP_WALK_DIRS /\ ~StartsWithDot(p[i])
\* faulty variant: the walk prunes nothing
repo_has_pyproject_toml_unpruned(repo) ==
  \E p \in AllFiles : p[1] = repo /\ isfile(p) /\ Last(p) = "pyproject.toml"
repo_has_pyproject_toml(repo) ==
  \E p \in AllFiles :
    p[1] = repo /\ isfile(p) /\ Walked(p) /\ Last(p) = "pyproject.toml"
repo_has_python_files(repo) ==
  \E p \in AllFiles : p[1] = repo /\ isfile(p) /\ Walked(p) /\ EndsWithPy(Last(p))

\* is_repo_dir: os.path.exists(<repo>/.git)
is_repo_dir(repo) == repo \in DOMAIN gitmeta /\ gitmeta[repo].kind # "none"

\* ------------------------------------------------------------------------
\* ensure_git_perms.  The .git entry of a repo: kind is "none", "file" or
\* "dir"; modes gives the permission bits of the directory itself and of
\* the entries the walk reaches (-1: no such entry); nostat holds the
\* entries os.stat fails on.
\* ------------------------------------------------------------------------
GitNames == {".git", "index", "objects", "HEAD"}
GROUP_WRITE == 16
HasGroupWrite(mode) == (mode \div GROUP_WRITE) % 2 = 1
NeedsGroupWrite(meta) ==
  {n \in GitNames : /\ meta.modes[n] >= 0
                    /\ n \notin meta.nostat
                    /\ ~HasGroupWrite(meta.modes[n])}
\* faulty variant: chmod to rwxrwxr-x instead of mode | 0o020
ensure_git_perms_fixed_mode(meta, dry) ==
  IF meta.kind # "dir" THEN [meta |-> meta, changed |-> FALSE]
  ELSE LET needs == NeedsGroupWrite(meta)
       IN [meta |-> IF dry THEN meta
                    ELSE [meta EXCEPT !.modes =
                           [n \in GitNames |->
                              IF n \in needs THEN 509 ELSE meta.modes[n]]],
           changed |-> needs # {}]
ensure_git_perms(meta, dry) ==
  IF meta.kind # "dir" THEN [meta |-> meta, changed |-> FALSE]
  ELSE LET needs == NeedsGroupWrite(meta)
       IN [meta |-> IF dry THEN meta
                    ELSE [meta EXCEPT !.modes =
                           [n \in GitNames |->
                              IF n \in needs THEN meta.modes[n] + GROUP_WRITE
                              ELSE meta.modes[n]]],
           changed |-> needs # {}]

\* ------------------------------------------------------------------------
\* AGENTS.md text.  A line is the sequence of its words and whether it ends
\* with a newline; a word is a marker the code searches for, a path that
\* holds one, or "text".  A file is [exists, lines]; only its last line may
\* lack the newline.
\* ------------------------------------------------------------------------
AGENT_STYLES == <<"PYTHON_STYLE.md", "MARKDOWN_STYLE.md", "REPO_STYLE.md">>
\* style_paths: os.path.relpath(os.path.join(dest_dir, filename), repo_dir)
style_paths ==
  [f \in Range(AGENT_STYLES) |->
     IF f = "PYTHON_STYLE.md" THEN "docs/PYTHON_STYLE.md"
     ELSE IF f = "MARKDOWN_STYLE.md" THEN "docs/MARKDOWN_STYLE.md"
     ELSE "docs/REPO_STYLE.md"]
coding_style_header == "## Coding Style"
environment_header == "## Environment"
user_request_marker == "When in doubt, implement the changes the user asked for"
tests_required_marker == "When changing code always run tests"
tests_allowed_marker == "Agents may run programs in the tests folder"
interpreter_marker == "/opt/homebrew/opt/python@3.12/bin/python3.12"
runtime_sentence == "This is only for Codex's runtime, not a requirement for repo scripts."
site_packages_marker == "/opt/homebrew/lib/python3.12/site-packages/"
ALine(toks) == [toks |-> toks, nl |-> TRUE]
NoAgents == [exists |-> FALSE, lines |-> <<>>]
AgentsText(lines) == [exists |-> TRUE, lines |-> lines]
\* `marker in word`: the word is the marker, or the docs/ path of it
WordHas(word, marker) ==
  \/ word = marker
  \/ marker \in Range(AGENT_STYLES) /\ word = style_paths[marker]
  \/ marker = "CHANGELOG.md" /\ word = "docs/CHANGELOG.md"
\* `marker in line` and `marker in content`
InLine(marker, line) == \E i \in 1..Len(line.toks) : WordHas(line.toks[i], marker)
\* faulty variant: a marker counts only when it is a line of its own
InContent_whole_line(marker, lines) == \E i \in 1..Len(lines) : lines[i].toks = <<marker>>
InContent(marker, lines) == \E i \in 1..Len(lines) : InLine(marker, lines[i])
\* line.replace(old, new), called when new is not in the line
ReplaceIn(line, old, new) ==
  [line EXCEPT !.toks = [i \in 1..Len(line.toks) |->
                           IF line.toks[i] = old THEN new ELSE line.toks[i]]]
\* lines 313-328: stale references get their docs/ path
FixReference(line, old, new) ==
  IF InLine(old, line) /\ ~InLine(new, line) THEN ReplaceIn(line, old, new) ELSE line
FixReferences(line) ==
  FixReference(
    FixReference(
      FixReference(
        FixReference(line, "PYTHON_STYLE.md", style_paths["PYTHON_STYLE.md"]),
        "MARKDOWN_STYLE.md", style_paths["MARKDOWN_STYLE.md"]),
      "REPO_STYLE.md", style_paths["REPO_STYLE.md"]),
    "CHANGELOG.md", "docs/CHANGELOG.md")
\* ''.join(lines) read back as lines: a line without its newline runs into
\* the line after it
RECURSIVE JoinLines(_)
JoinLines(lines) ==
  IF Len(lines) <= 1 THEN lines
  ELSE IF lines[1].nl THEN <<lines[1]>> \o JoinLines(Tail(lines))
  ELSE JoinLines(<<[toks |-> lines[1].toks \o lines[2].toks, nl |-> lines[2].nl]>>
                 \o Tail(Tail(lines)))
\* the fixed lines of lines 277-302
python_line == ALine(<<"text", style_paths["PYTHON_STYLE.md"]>>)
markdown_line == ALine(<<"text", style_paths["MARKDOWN_STYLE.md"]>>)
repo_style_line == ALine(<<"text", style_paths["REPO_STYLE.md"]>>)
changelog_line == ALine(<<"text", "docs/CHANGELOG.md">>)
user_request_line == ALine(<<user_request_marker, "text">>)
tests_required_line == ALine(<<tests_required_marker, "text">>)
tests_allowed_line == ALine(<<tests_allowed_marker, "text">>)
\* one list element, two lines of text
macos_python312_interpreter_line ==
  <<ALine(<<"text", interpreter_marker, "text">>), ALine(<<runtime_sentence>>)>>
macos_site_packages_line == <<ALine(<<"text", site_packages_marker>>)>>
\* insert_after_environment_header: after the first line that is the header
insert_after_environment_header(lines, insert_lines) ==
  LET at == {i \in 1..Len(lines) : lines[i].toks = <<environment_header>>}
  IN IF at = {} THEN [found |-> FALSE, lines |-> lines]
     ELSE LET i == CHOOSE k \in at : \A j \in at : k <= j
          IN [found |-> TRUE,
              lines |-> SubSeq(lines, 1, i) \o insert_lines
                        \o SubSeq(lines, i + 1, Len(lines))]
\* build_agents_coding_style_block: the text of a new AGENTS.md
build_agents_coding_style_block(macos) ==
  <<ALine(<<coding_style_header>>), python_line, markdown_line, repo_style_line,
    changelog_line, user_request_line, tests_required_line, tests_allowed_line>>
  \o (IF macos
      THEN <<ALine(<<>>), ALine(<<environment_header>>),
             ALine(<<"text", interpreter_marker, "text", runtime_sentence>>),
             ALine(<<"text", site_packages_marker>>)>>
      ELSE <<>>)
\* faulty variant: a file that has the header gets nothing appended
ensure_agents_coding_style_header_only(a, dry, macos) ==
  IF InContent(coding_style_header, a.lines) THEN [agents |-> a, changed |-> FALSE]
  ELSE [agents |-> IF dry THEN a
                   ELSE AgentsText(JoinLines(a.lines \o <<ALine(<<>>)>>)
                                   \o build_agents_coding_style_block(macos)),
        changed |-> TRUE]
\* ensure_agents_coding_style: [agents, changed]
ensure_agents_coding_style(a, dry, macos) ==
  LET fixed == [i \in 1..Len(a.lines) |-> FixReferences(a.lines[i])]
      has_environment_header == InContent(environment_header, fixed)
      lines_to_add ==
        (IF InContent(coding_style_header, fixed) THEN <<>>
         ELSE <<ALine(<<coding_style_header>>)>>)
        \o (IF InContent("PYTHON_STYLE.md", fixed) THEN <<>> ELSE <<python_line>>)
        \o (IF InContent("MARKDOWN_STYLE.md", fixed) THEN <<>> ELSE <<markdown_line>>)
        \o (IF InContent("REPO_STYLE.md", fixed) THEN <<>> ELSE <<repo_style_line>>)
        \o (IF InContent("docs/CHANGELOG.md", fixed) THEN <<>> ELSE <<changelog_line>>)
        \o (IF InContent(user_request_marker, fixed) THEN <<>>
            ELSE <<user_request_line>>)
        \o (IF InContent(tests_required_marker, fixed) THEN <<>>
            ELSE <<tests_required_line>>)
        \o (IF InContent(tests_allowed_marker, fixed) THEN <<>>
            ELSE <<tests_allowed_line>>)
      environment_lines ==
        (IF macos /\ ~InContent(interpreter_marker, fixed)
         THEN macos_python312_interpreter_line ELSE <<>>)
        \o (IF macos /\ ~InContent(site_packages_marker, fixed)
            THEN macos_site_packages_line ELSE <<>>)
      inserted ==
        IF environment_lines # <<>> /\ has_environment_header
        THEN insert_after_environment_header(fixed, environment_lines)
        ELSE [found |-> FALSE, lines |-> fixed]
      all_to_add ==
        lines_to_add
        \o (IF environment_lines # <<>> /\ ~has_environment_header
            THEN <<ALine(<<>>), ALine(<<environment_header>>)>> \o environment_lines
            ELSE <<>>)
      changed == fixed # a.lines \/ inserted.found
      updated_content == JoinLines(inserted.lines)
      needs_newline == Len(updated_content) > 0 /\ ~Last(updated_content).nl
  IN IF all_to_add = <<>> /\ ~changed THEN [agents |-> a, changed |-> FALSE]
     ELSE IF dry THEN [agents |-> a, changed |-> TRUE]
     ELSE [agents |->
             AgentsText((IF all_to_add # <<>> /\ needs_newline
                         THEN [updated_content EXCEPT ![Len(updated_content)].nl = TRUE]
                         ELSE updated_content) \o all_to_add),
           changed |-> TRUE]
\* ensure_agents_file: [agents, changed]
ensure_agents_file(a, dry, macos) ==
  IF ~a.exists
  THEN [agents |-> IF dry THEN a
                   ELSE AgentsText(build_agents_coding_style_block(macos)),
        changed |-> TRUE]
  ELSE ensure_agents_coding_style(a, dry, macos)

\* ------------------------------------------------------------------------
\* Setup: resolve_target_repo, resolve_source_dir, build_source_maps,
\* collect_repo_dirs.  A raise is the result "raise".
\* ------------------------------------------------------------------------
resolve_target_repo(repo_name) ==
  IF repo_name = "none" THEN "none"
  ELSE IF ~isdir(<<repo_name>>) THEN "raise"
  ELSE IF ~is_repo_dir(repo_name) THEN "raise"
  ELSE repo_name

\* find_repo_root from the script's directory: the nearest ancestor holding
\* the style guides under docs/
find_repo_root(start_dir) ==
  IF /\ start_dir # "none"
     /\ \A s \in {"PYTHON_STYLE.md", "REPO_STYLE.md"} : isfile(<<start_dir, "docs", s>>)
  THEN start_dir
  ELSE "none"

resolve_source_dir(source_dir_arg) ==
  IF source_dir_arg # "none" THEN source_dir_arg
  ELSE IF isdir(<<"junk-drawer">>) THEN "junk-drawer"
  ELSE IF find_repo_root(script_home) = "none" THEN "raise"
  ELSE find_repo_root(script_home)

\* the style guide's source: docs/ first, then the source root
StyleSource(sd, filename) ==
  IF isfile(<<sd, "docs", filename>>) THEN <<sd, "docs", filename>>
  ELSE IF isfile(<<sd, filename>>) THEN <<sd, filename>>
  ELSE <<>>

\* test_*.py entries of the source tests directory that the list lacks, in
\* sorted order, appended to the list
DiscoveredTests(sd, tests) ==
  SelectSeq(SortedTestNames,
            LAMBDA entry : /\ isfile(<<sd, "tests", entry>>)
                           /\ StartsWithTest(entry)
                           /\ EndsWithPy(entry)
                           /\ entry \notin Range(tests))

\* faulty variant: the test scripts are mapped without the isfile check
build_source_maps_unchecked_tests(sd, styles, devel_scripts, tests) ==
  LET final_test_scripts == tests \o DiscoveredTests(sd, tests)
      ok == /\ \A f \in Range(styles) : StyleSource(sd, f) # <<>>
            /\ \A f \in Range(devel_scripts) : isfile(<<sd, "devel", f>>)
            /\ isdir(<<sd, "tests">>)
  IN IF ~ok THEN [ok |-> FALSE]
     ELSE [ok |-> TRUE,
           source_map |-> [f \in Range(styles) |-> StyleSource(sd, f)],
           devel_source_map |-> [f \in Range(devel_scripts) |-> <<sd, "devel", f>>],
           test_source_map |-> [f \in Range(final_test_scripts) |-> <<sd, "tests", f>>],
           test_scripts |-> final_test_scripts]
build_source_maps(sd, styles, devel_scripts, tests) ==
  LET final_test_scripts == tests \o DiscoveredTests(sd, tests)
      ok == /\ \A f \in Range(styles) : StyleSource(sd, f) # <<>>
            /\ \A f \in Range(devel_scripts) : isfile(<<sd, "devel", f>>)
            /\ isdir(<<sd, "tests">>)
            /\ \A f \in Range(final_test_scripts) : isfile(<<sd, "tests", f>>)
  IN IF ~ok THEN [ok |-> FALSE]
     ELSE [ok |-> TRUE,
           source_map |-> [f \in Range(styles) |-> StyleSource(sd, f)],
           devel_source_map |-> [f \in Range(devel_scripts) |-> <<sd, "devel", f>>],
           test_source_map |-> [f \in Range(final_test_scripts) |-> <<sd, "tests", f>>],
           test_scripts |-> final_test_scripts]

\* collect_repo_dirs: the target alone, or the entries of base_dir that are
\* directories and not dot-named, in scan order
collect_repo_dirs(target_repo) ==
  IF target_repo # "none" THEN <<target_repo>>
  ELSE SelectSeq(scan_order, LAMBDA e : isdir(<<e>>) /\ ~StartsWithDot(e))

\* ------------------------------------------------------------------------
\* main(): setup
\* ------------------------------------------------------------------------
\* the I/O failures the environment may inject where `possible` names them
FaultChoices(possible) ==
  IF fault_budget > 0 THEN {"ok"} \cup possible ELSE {"ok"}

\* an exception no handler catches: the traceback ends the process
Uncaught ==
  /\ pc' = "crashed"
  /\ faults' = faults + 1
  /\ fault_budget' = fault_budget - 1
  /\ UNCHANGED <<fsvars, envvars, mapvars, run, repo_dirs, ri, fi, repo_python,
                 counts, prev_counts, fs0, py0, last>>

Setup ==
  /\ pc = "setup"
  /\ LET target_repo == resolve_target_repo(cli.repo_name)
         sd == IF target_repo = "raise" THEN "raise"
               ELSE resolve_source_dir(cli.source_dir)
         maps == IF sd = "raise" THEN [ok |-> FALSE]
                 ELSE build_source_maps(sd, STYLE_FILES, DEVEL_SCRIPTS, TEST_SCRIPTS)
     IN IF ~maps.ok
        THEN /\ pc' = "aborted"
             /\ UNCHANGED <<mapvars, repo_dirs, ri, counts>>
        ELSE /\ pc' = "loop"
             /\ source_dir' = sd
             /\ source_map' = maps.source_map
             /\ devel_source_map' = maps.devel_source_map
             /\ test_source_map' = maps.test_source_map
             /\ test_scripts' = maps.test_scripts
             /\ counts' = ZeroCounts
             /\ repo_dirs' = collect_repo_dirs(target_repo)
             /\ ri' = 1
  /\ UNCHANGED <<fsvars, envvars, run, fi, repo_python, prev_counts, fs0, py0,
                 last, faultvars>>

\* ------------------------------------------------------------------------
\* main(): the per-repo loop
\* ------------------------------------------------------------------------
Repo == repo_dirs[ri]
InLoop(at) == pc = at /\ ri <= Len(repo_dirs)

\* a directory without .git is counted and skipped
SkipNonRepo ==
  /\ InLoop("loop")
  /\ ~is_repo_dir(Repo)
  /\ counts' = Inc(counts, "skipped_non_repo")
  /\ ri' = ri + 1
  /\ UNCHANGED <<fsvars, envvars, mapvars, run, pc, repo_dirs, fi, repo_python,
                 prev_counts, fs0, py0, last, faultvars>>

EnterRepo ==
  /\ InLoop("loop")
  /\ is_repo_dir(Repo)
  /\ pc' = "perms"
  /\ py0' = repo_has_python_files(Repo)
  /\ UNCHANGED <<fsvars, envvars, mapvars, run, repo_dirs, ri, fi, repo_python,
                 counts, prev_counts, fs0, last, faultvars>>

\* ensure_git_perms and its counter; os.chmod is not guarded
EnsureGitPerms ==
  /\ InLoop("perms")
  /\ LET r == ensure_git_perms(gitmeta[Repo], dry_run)
     IN \E io \in FaultChoices(IF ~dry_run /\ r.changed THEN {"chmod"} ELSE {}) :
          IF io # "ok" THEN Uncaught
          ELSE /\ gitmeta' = [gitmeta EXCEPT ![Repo] = r.meta]
               /\ counts' = Inc(counts, IF r.changed THEN "git_perms_changed"
                                        ELSE "git_perms_unchanged")
               /\ pc' = "gitignore"
               /\ UNCHANGED <<files, dirs, gitignore, agents, envvars, mapvars,
                              run, repo_dirs, ri, fi, repo_python, prev_counts,
                              fs0, py0, last, faultvars>>

\* process_gitignore and its eight counters; its open() calls are not guarded
ProcessGitignore ==
  /\ InLoop("gitignore")
  /\ LET r == process_gitignore(gitignore[Repo], dry_run)
     IN \E io \in FaultChoices(IF gitignore[Repo].exists \/ ~dry_run
                               THEN {"open"} ELSE {}) :
          IF io # "ok" THEN Uncaught
          ELSE /\ gitignore' = [gitignore EXCEPT ![Repo] = r.file]
               /\ counts' =
                    [counts EXCEPT
                       !["gitignore_created"] = @ + r.created,
                       !["gitignore_updated"] = @ + r.updated,
                       !["gitignore_lines_added"] = @ + r.lines_added,
                       !["gitignore_cleaned"] = @ + r.cleaned,
                       !["gitignore_duplicates_removed"] = @ + r.dup_removed,
                       !["gitignore_whitespace_cleaned"] = @ + r.whitespace_cleaned,
                       !["gitignore_deprecated_removed"] = @ + r.deprecated_removed_files,
                       !["gitignore_deprecated_entries_removed"] =
                          @ + r.deprecated_removed_entries]
               /\ pc' = "docs_dir"
               /\ UNCHANGED <<files, dirs, gitmeta, agents, envvars, mapvars, run,
                              repo_dirs, ri, fi, repo_python, prev_counts, fs0,
                              py0, last, faultvars>>

\* lines 1107-1113: mkdir docs
MakeDocsDir ==
  /\ InLoop("docs_dir")
  /\ LET docs_dir == <<Repo, "docs">>
         make == ~isdir(docs_dir) /\ ~dry_run
     IN \E io \in FaultChoices(IF make THEN {"makedirs"} ELSE {}) :
          IF io # "ok" THEN Uncaught
          ELSE /\ dirs' = IF make THEN dirs \cup {docs_dir} ELSE dirs
               /\ pc' = "tests_dir"
               /\ UNCHANGED <<files, gitignore, gitmeta, agents, envvars, mapvars,
                              run, repo_dirs, ri, fi, repo_python, counts,
                              prev_counts, fs0, py0, last, faultvars>>

\* ensure_tests_dir and created_tests_dirs
EnsureTestsDir ==
  /\ InLoop("tests_dir")
  /\ LET tests_dir == <<Repo, "tests">>
         missing == ~isdir(tests_dir)
         make == missing /\ ~dry_run
     IN \E io \in FaultChoices(IF make THEN {"makedirs"} ELSE {}) :
          IF io # "ok" THEN Uncaught
          ELSE /\ dirs' = IF make THEN dirs \cup {tests_dir} ELSE dirs
               /\ counts' = IF missing THEN Inc(counts, "created_tests_dirs")
                            ELSE counts
               /\ pc' = "conftest"
               /\ UNCHANGED <<files, gitignore, gitmeta, agents, envvars, mapvars,
                              run, repo_dirs, ri, fi, repo_python, prev_counts,
                              fs0, py0, last, faultvars>>

\* lines 1120-1128: an empty tests/conftest.py
CreateConftest ==
  /\ InLoop("conftest")
  /\ LET conftest_path == <<Repo, "tests", "conftest.py">>
         missing == ~isfile(conftest_path)
         make == missing /\ ~dry_run
     IN \E io \in FaultChoices(IF make THEN {"open"} ELSE {}) :
          IF io # "ok" THEN Uncaught
          ELSE /\ files' = IF make THEN [files EXCEPT ![conftest_path] = "empty"]
                           ELSE files
               /\ counts' = IF missing THEN Inc(counts, "created_conftest")
                            ELSE counts
               /\ pc' = "deprecated"
               /\ UNCHANGED <<dirs, gitignore, gitmeta, agents, envvars, mapvars,
                              run, repo_dirs, ri, fi, repo_python, prev_counts,
                              fs0, py0, last, faultvars>>

\* remove_deprecated_tests: the deprecated names present in tests_dir
DeprecatedPresent(tests_dir) ==
  {d \in Range(DEPRECATED_TEST_SCRIPTS) : isfile(Join(tests_dir, d))}
\* faulty variant: os.remove is called in a dry run too
remove_deprecated_tests_always(tests_dir, dry) ==
  [files |-> [p \in AllFiles |->
                IF \E d \in DeprecatedPresent(tests_dir) : p = Join(tests_dir, d)
                THEN "absent" ELSE files[p]],
   removed |-> Cardinality(DeprecatedPresent(tests_dir))]
remove_deprecated_tests(tests_dir, dry) ==
  [files |-> IF dry THEN files
             ELSE [p \in AllFiles |->
                     IF \E d \in DeprecatedPresent(tests_dir) : p = Join(tests_dir, d)
                     THEN "absent" ELSE files[p]],
   removed |-> Cardinality(DeprecatedPresent(tests_dir))]
RemoveDeprecatedTests ==
  /\ InLoop("deprecated")
  /\ LET r == remove_deprecated_tests(<<Repo, "tests">>, dry_run)
     IN \E io \in FaultChoices(IF r.removed > 0 /\ ~dry_run THEN {"remove"} ELSE {}) :
          IF io # "ok" THEN Uncaught
          ELSE /\ files' = r.files
               /\ counts' = Add(counts, "removed_deprecated_tests", r.removed)
               /\ pc' = "devel_dir"
               /\ UNCHANGED <<dirs, gitignore, gitmeta, agents, envvars, mapvars,
                              run, repo_dirs, ri, fi, repo_python, prev_counts,
                              fs0, py0, last, faultvars>>

\* lines 1132-1138: mkdir devel and created_devel_dirs
MakeDevelDir ==
  /\ InLoop("devel_dir")
  /\ LET devel_dir == <<Repo, "devel">>
         missing == ~isdir(devel_dir)
         make == missing /\ ~dry_run
     IN \E io \in FaultChoices(IF make THEN {"makedirs"} ELSE {}) :
          IF io # "ok" THEN Uncaught
          ELSE /\ dirs' = IF make THEN dirs \cup {devel_dir} ELSE dirs
               /\ counts' = IF missing THEN Inc(counts, "created_devel_dirs")
                            ELSE counts
               /\ pc' = "changelog"
               /\ UNCHANGED <<files, gitignore, gitmeta, agents, envvars, mapvars,
                              run, repo_dirs, ri, fi, repo_python, prev_counts,
                              fs0, py0, last, faultvars>>

\* ensure_changelog_file and created_changelog
EnsureChangelogFile ==
  /\ InLoop("changelog")
  /\ LET changelog_path == <<Repo, "docs", "CHANGELOG.md">>
         missing == ~exists(changelog_path)
         make == missing /\ ~dry_run
     IN \E io \in FaultChoices(IF make THEN {"open"} ELSE {}) :
          IF io # "ok" THEN Uncaught
          ELSE /\ files' = IF make THEN [files EXCEPT ![changelog_path] = "empty"]
                           ELSE files
               /\ counts' = IF missing THEN Inc(counts, "created_changelog")
                            ELSE counts
               /\ pc' = "styles"
               /\ fi' = 1
               /\ UNCHANGED <<dirs, gitignore, gitmeta, agents, envvars, mapvars,
                              run, repo_dirs, ri, repo_python, prev_counts, fs0,
                              py0, last, faultvars>>

\* ------------------------------------------------------------------------
\* File synchronization: the body the three file loops share (lines
\* 1150-1182, 1198-1231, 1244-1277).  io names the call the environment
\* fails: "cmp" (filecmp.cmp), "copy" (shutil.copy2) or none ("ok").
\* ------------------------------------------------------------------------
Parent(p) == SubSeq(p, 1, Len(p) - 1)
SameBytes(source_file, dest_file) ==
  isfile(source_file) /\ isfile(dest_file) /\ files[source_file] = files[dest_file]
\* faulty variant: an existing destination is taken as identical without comparing
SyncOutcome_shallow(source_file, dest_file, dry, io) ==
  IF dest_file = source_file THEN "skip_source"
  ELSE IF isfile(dest_file) THEN "skip_same"
  ELSE IF ~dry /\ (io = "copy" \/ ~isfile(source_file)) THEN "error"
  ELSE "copy"
\* faulty variant: the copy is outside the try block's accounting: a failed call
\* is counted like a successful one
SyncOutcome_swallow(source_file, dest_file, dry, io) ==
  IF dest_file = source_file THEN "skip_source"
  ELSE IF isfile(dest_file) /\ io # "cmp" /\ SameBytes(source_file, dest_file)
  THEN "skip_same"
  ELSE IF isfile(dest_file) THEN "update" ELSE "copy"
SyncOutcome(source_file, dest_file, dry, io) ==
  IF dest_file = source_file THEN "skip_source"
  ELSE LET dest_exists == isfile(dest_file)
       IN IF dest_exists /\ (io = "cmp" \/ ~isfile(source_file)) THEN "error"
          ELSE IF dest_exists /\ SameBytes(source_file, dest_file) THEN "skip_same"
          ELSE IF ~dry /\ (io = "copy" \/ ~isfile(source_file)
                           \/ ~isdir(Parent(dest_file)))
          THEN "error"
          ELSE IF dest_exists THEN "update" ELSE "copy"
\* the calls of one step that can fail
SyncCalls(source_file, dest_file, dry) ==
  IF dest_file = source_file THEN {}
  ELSE (IF isfile(dest_file) THEN {"cmp"} ELSE {})
       \cup (IF ~dry /\ ~SameBytes(source_file, dest_file) THEN {"copy"} ELSE {})
\* faulty variant: an unchanged developer script is counted with the style guides
CounterFor_one_skipped_same(cls, outcome) ==
  CASE outcome = "error" -> "errors"
    [] cls = "styles" /\ outcome = "skip_source" -> "skipped_source"
    [] cls = "styles" /\ outcome = "skip_same" -> "skipped_same"
    [] cls = "styles" /\ outcome = "update" -> "updated"
    [] cls = "styles" /\ outcome = "copy" -> "copied"
    [] cls = "tests" /\ outcome = "gated" -> "skipped_tests_no_python"
    [] cls = "tests" /\ outcome = "skip_source" -> "skipped_source_tests"
    [] cls = "tests" /\ outcome = "skip_same" -> "skipped_same_tests"
    [] cls = "tests" /\ outcome = "update" -> "updated_tests"
    [] cls = "tests" /\ outcome = "copy" -> "copied_tests"
    [] cls = "devel" /\ outcome = "gated" -> "skipped_devel_no_pyproject"
    [] cls = "devel" /\ outcome = "skip_source" -> "skipped_source_devel"
    [] cls = "devel" /\ outcome = "skip_same" -> "skipped_same"
    [] cls = "devel" /\ outcome = "update" -> "updated_devel"
    [] cls = "devel" /\ outcome = "copy" -> "copied_devel"
\* the counter each loop increments for an outcome
CounterFor(cls, outcome) ==
  CASE outcome = "error" -> "errors"
    [] cls = "styles" /\ outcome = "skip_source" -> "skipped_source"
    [] cls = "styles" /\ outcome = "skip_same" -> "skipped_same"
    [] cls = "styles" /\ outcome = "update" -> "updated"
    [] cls = "styles" /\ outcome = "copy" -> "copied"
    [] cls = "tests" /\ outcome = "gated" -> "skipped_tests_no_python"
    [] cls = "tests" /\ outcome = "skip_source" -> "skipped_source_tests"
    [] cls = "tests" /\ outcome = "skip_same" -> "skipped_same_tests"
    [] cls = "tests" /\ outcome = "update" -> "updated_tests"
    [] cls = "tests" /\ outcome = "copy" -> "copied_tests"
    [] cls = "devel" /\ outcome = "gated" -> "skipped_devel_no_pyproject"
    [] cls = "devel" /\ outcome = "skip_source" -> "skipped_source_devel"
    [] cls = "devel" /\ outcome = "skip_same" -> "skipped_same_devel"
    [] cls = "devel" /\ outcome = "update" -> "updated_devel"
    [] cls = "devel" /\ outcome = "copy" -> "copied_devel"
\* one iteration of a file loop: the gate, the decision, the copy, the counter
SyncFile(cls, filename, gated, source_file, dest_file) ==
  \E io \in FaultChoices(IF gated THEN {}
                         ELSE SyncCalls(source_file, dest_file, dry_run)) :
    LET outcome == IF gated THEN "gated"
                   ELSE SyncOutcome(source_file, dest_file, dry_run, io)
        wrote == outcome \in {"copy", "update"} /\ ~dry_run
    IN /\ files' = IF wrote THEN [files EXCEPT ![dest_file] = files[source_file]]
                   ELSE files
       /\ counts' = Inc(counts, CounterFor(cls, outcome))
       /\ faults' = IF io = "ok" THEN faults ELSE faults + 1
       /\ fault_budget' = IF io = "ok" THEN fault_budget ELSE fault_budget - 1
       /\ last' = [run |-> run, repo |-> Repo, cls |-> cls, file |-> filename,
                   outcome |-> outcome, gated |-> gated,
                   dst_is_src |-> (dest_file = source_file),
                   dest_exists |-> isfile(dest_file),
                   is_same |-> SameBytes(source_file, dest_file),
                   wrote |-> wrote, dest |-> dest_file, source |-> source_file,
                   py0 |-> py0]

\* lines 1146-1182: style guides into docs/
SyncStyle ==
  /\ InLoop("styles")
  /\ LET filename == STYLE_FILES[fi]
     IN SyncFile("styles", filename, FALSE, source_map[filename],
                 <<Repo, "docs", filename>>)
  /\ fi' = IF fi < Len(STYLE_FILES) THEN fi + 1 ELSE 1
  /\ pc' = IF fi < Len(STYLE_FILES) THEN "styles" ELSE "python"
  /\ UNCHANGED <<dirs, gitignore, gitmeta, agents, envvars, mapvars, run,
                 repo_dirs, ri, repo_python, prev_counts, fs0, py0>>

\* line 1184: repo_python is computed once, before the test-script loop
RepoHasPythonFiles ==
  /\ InLoop("python")
  /\ repo_python' = repo_has_python_files(Repo)
  /\ pc' = "tests"
  /\ UNCHANGED <<fsvars, envvars, mapvars, run, repo_dirs, ri, fi, counts,
                 prev_counts, fs0, py0, last, faultvars>>

\* lines 1185-1231: test scripts into tests/
SyncTest ==
  /\ InLoop("tests")
  /\ LET filename == test_scripts[fi]
         gated == StartsWithTest(filename) /\ EndsWithPy(filename) /\ ~repo_python
     IN SyncFile("tests", filename, gated, test_source_map[filename],
                 <<Repo, "tests", filename>>)
  /\ fi' = IF fi < Len(test_scripts) THEN fi + 1 ELSE 1
  /\ pc' = IF fi < Len(test_scripts) THEN "tests" ELSE "devel"
  /\ UNCHANGED <<dirs, gitignore, gitmeta, agents, envvars, mapvars, run,
                 repo_dirs, ri, repo_python, prev_counts, fs0, py0>>

\* lines 1233-1277: developer scripts into devel/
SyncDevel ==
  /\ InLoop("devel")
  /\ LET filename == DEVEL_SCRIPTS[fi]
         gated == filename = "submit_to_pypi.py" /\ ~repo_has_pyproject_toml(Repo)
     IN SyncFile("devel", filename, gated, devel_source_map[filename],
                 <<Repo, "devel", filename>>)
  /\ fi' = IF fi < Len(DEVEL_SCRIPTS) THEN fi + 1 ELSE 1
  /\ pc' = IF fi < Len(DEVEL_SCRIPTS) THEN "devel" ELSE "agents"
  /\ UNCHANGED <<dirs, gitignore, gitmeta, agents, envvars, mapvars, run,
                 repo_dirs, ri, repo_python, prev_counts, fs0, py0>>

\* lines 1279-1306: AGENTS.md, inside try/except
EnsureAgentsFile ==
  /\ InLoop("agents")
  /\ LET was_existing == agents[Repo].exists
         r == ensure_agents_file(agents[Repo], dry_run, is_macos)
     IN \E io \in FaultChoices(IF was_existing \/ ~dry_run THEN {"open"} ELSE {}) :
          IF io # "ok"
          THEN /\ counts' = Inc(counts, "errors")
               /\ faults' = faults + 1
               /\ fault_budget' = fault_budget - 1
               /\ UNCHANGED agents
          ELSE /\ agents' = [agents EXCEPT ![Repo] = r.agents]
               /\ counts' = IF ~r.changed THEN counts
                            ELSE IF was_existing THEN Inc(counts, "updated_agents")
                            ELSE Inc(counts, "created_agents")
               /\ UNCHANGED faultvars
  /\ ri' = ri + 1
  /\ pc' = "loop"
  /\ UNCHANGED <<files, dirs, gitignore, gitmeta, envvars, mapvars, run,
                 repo_dirs, fi, repo_python, prev_counts, fs0, py0, last>>

\* print_summary_report: the run is complete
PrintSummary ==
  /\ pc = "loop"
  /\ ri > Len(repo_dirs)
  /\ pc' = "done"
  /\ UNCHANGED <<fsvars, envvars, mapvars, run, repo_dirs, ri, fi, repo_python,
                 counts, prev_counts, fs0, py0, last, faultvars>>

\* the tool is started again, on the filesystem the run before it left
NextRun ==
  /\ pc = "done"
  /\ run < Len(plan)
  /\ run' = run + 1
  /\ pc' = "setup"
  /\ prev_counts' = counts
  /\ fs0' = FS
  /\ faults' = 0
  /\ last' = NoStep
  /\ UNCHANGED <<fsvars, envvars, mapvars, repo_dirs, ri, fi, repo_python,
                 counts, py0, fault_budget>>

Next ==
  \/ Setup
  \/ SkipNonRepo
  \/ EnterRepo
  \/ EnsureGitPerms
  \/ ProcessGitignore
  \/ MakeDocsDir
  \/ EnsureTestsDir
  \/ CreateConftest
  \/ RemoveDeprecatedTests
  \/ MakeDevelDir
  \/ EnsureChangelogFile
  \/ SyncStyle
  \/ RepoHasPythonFiles
  \/ SyncTest
  \/ SyncDevel
  \/ EnsureAgentsFile
  \/ PrintSummary
  \/ NextRun

\* ------------------------------------------------------------------------
\* Initial states: the filesystem main() finds and its arguments
\* ------------------------------------------------------------------------
Classes == {"styles", "tests", "devel"}
\* the names a complete source tests directory holds
SourceTestNames == Range(TEST_SCRIPTS) \cup {"conftest.py", "test_data.txt"}
\* the canonical tree at root r: style guides under docs/ or at the root,
\* the developer scripts, the tests directory with the names src_tests
SourceContent(r, rel, style_at, src_tests) ==
  IF Len(rel) = 2 /\ rel[1] = "docs" /\ rel[2] \in Range(STYLE_FILES)
  THEN (IF style_at = "docs" THEN "canon" ELSE "absent")
  ELSE IF Len(rel) = 1 /\ rel[1] \in Range(STYLE_FILES)
  THEN (IF style_at = "root" THEN "canon" ELSE "absent")
  ELSE IF rel[1] = "tests"
  THEN (IF rel[2] \in src_tests THEN "canon" ELSE "absent")
  ELSE IF rel[1] = "devel" THEN "canon"
  ELSE "absent"
\* a target repo: every managed file of a class in the state dest[class]
\* ("absent", "canon": as the source, "stale": differing), the deprecated
\* test scripts present when dep, the files extras outside the managed
\* directories
TargetContent(rel, dest, dep, extras, src_tests) ==
  IF Len(rel) = 2 /\ rel[1] = "docs" /\ rel[2] \in Range(STYLE_FILES)
  THEN dest["styles"]
  ELSE IF rel = <<"docs", "CHANGELOG.md">>
  THEN (IF dest["styles"] = "absent" THEN "absent" ELSE "empty")
  ELSE IF rel[1] = "tests" /\ rel[2] \in Range(DEPRECATED_TEST_SCRIPTS)
  THEN (IF dep THEN "stale" ELSE "absent")
  ELSE IF rel = <<"tests", "conftest.py">>
  THEN (IF dest["tests"] = "canon" THEN "empty" ELSE "absent")
  ELSE IF rel[1] = "tests" /\ rel[2] \in src_tests /\ rel[2] # "test_data.txt"
  THEN dest["tests"]
  ELSE IF rel[1] = "devel" THEN dest["devel"]
  ELSE IF rel \in extras THEN "canon"
  ELSE "absent"
\* the directories a file tree implies, and the base entries that exist
DirsOf(f, roots) ==
  {<<r>> : r \in roots} \cup {<<".cache">>}
  \cup {Parent(p) : p \in {q \in AllFiles : f[q] # "absent"}}
\* .git entries: one lacking g+w throughout, one group-writable already
GitLocked ==
  [kind |-> "dir",
   modes |-> [n \in GitNames |-> IF n \in {".git", "objects"} THEN 493 ELSE 420],
   nostat |-> {"HEAD"}]
GitShared ==
  [kind |-> "dir",
   modes |-> [n \in GitNames |-> IF n \in {".git", "objects"} THEN 509
                                 ELSE IF n = "HEAD" THEN -1 ELSE 436],
   nostat |-> {}]
GitNone == [kind |-> "none", modes |-> [n \in GitNames |-> -1], nostat |-> {}]
\* a .gitignore with a deprecated entry, a duplicate, trailing whitespace,
\* a blank line and no final newline
DirtyGitignore ==
  TextFile(<<EntryLine("pyflakes.txt"), MkLine(FALSE, "*.pyc", TRUE), BlankLine,
             EntryLine("*.pyc"), EntryLine(".DS_Store")>>, FALSE)
TargetProfiles ==
  {[styles |-> "absent", tests |-> "absent", devel |-> "absent"],
   [styles |-> "canon", tests |-> "canon", devel |-> "canon"],
   [styles |-> "stale", tests |-> "stale", devel |-> "stale"],
   [styles |-> "stale", tests |-> "absent", devel |-> "canon"],
   [styles |-> "canon", tests |-> "stale", devel |-> "absent"],
   [styles |-> "absent", tests |-> "canon", devel |-> "stale"]}
TargetExtras ==
  {{}, {<<"src", "main.py">>}, {<<"pyproject.toml">>, <<"src", "main.py">>},
   {<<"build", "pyproject.toml">>, <<"build", "lib.py">>},
   {<<".tox", "pyproject.toml">>}, {<<"src", "pyproject.toml">>}}
ScanOrders ==
  {<<".cache", "junk-drawer", "notes.txt", "repoB">>,
   <<"repoB", "notes.txt", "junk-drawer", ".cache">>}

\* an AGENTS.md with a stale reference, no final newline and the rest missing;
\* one that holds every line the tool asks for on either platform
StaleAgents ==
  AgentsText(<<ALine(<<coding_style_header>>),
               [toks |-> <<"text", "PYTHON_STYLE.md">>, nl |-> FALSE]>>)
CompleteAgents == AgentsText(build_agents_coding_style_block(TRUE))
Platforms == {"darwin", "linux"}

\* what every initial state shares
InitCommon(budget) ==
  /\ platform \in Platforms
  /\ call = NoCall
  /\ run = 1
  /\ pc = "setup"
  /\ source_dir = "none"
  /\ source_map = <<>>
  /\ devel_source_map = <<>>
  /\ test_source_map = <<>>
  /\ test_scripts = <<>>
  /\ repo_dirs = <<>>
  /\ ri = 1
  /\ fi = 1
  /\ repo_python = FALSE
  /\ counts = ZeroCounts
  /\ prev_counts = ZeroCounts
  /\ fs0 = FS
  /\ py0 = FALSE
  /\ last = NoStep
  /\ faults = 0
  /\ fault_budget = budget

\* the source tree outside base_dir (--source-dir ext), repoB a target, the
\* directory junk-drawer not a repo
InitExternal(plans, profiles, extra_sets, deps, src_extra) ==
  \E pl \in plans, dest \in profiles, extras \in extra_sets, dep \in deps,
     more \in src_extra :
    LET src_tests == SourceTestNames \cup more
        f == [p \in AllFiles |->
                IF p[1] = "ext"
                THEN SourceContent("ext", Tail(p), "docs", src_tests)
                ELSE IF p[1] = "repoB"
                THEN TargetContent(Tail(p), dest, dep, extras, src_tests)
                ELSE "absent"]
    IN /\ files = f
       /\ dirs = DirsOf(f, Roots)
       /\ gitignore = [r \in Roots |-> IF r = "repoB" THEN DirtyGitignore ELSE NoFile]
       /\ gitmeta = [r \in Roots |-> IF r = "repoB" THEN GitLocked ELSE GitNone]
       /\ agents = [r \in Roots |-> IF r = "repoB" THEN StaleAgents ELSE NoAgents]
       /\ cli = [source_dir |-> "ext", repo_name |-> "none"]
       /\ plan = pl
       /\ script_home = "none"
       /\ scan_order \in {<<".cache", "junk-drawer", "notes.txt", "repoB">>}

\* the source tree is the repo junk-drawer under base_dir (the default),
\* itself a target beside repoB
InitInBase ==
  \E pl \in {<<TRUE, FALSE>>, <<FALSE, FALSE>>}, order \in ScanOrders,
     style_at \in {"docs", "root"},
     more \in {{}, {"test_pyflakes.py"}, {"test_import_dot.py"}},
     dest \in {d \in TargetProfiles : d["styles"] = d["tests"] /\ d["tests"] = d["devel"]},
     extras \in {{}, {<<"src", "main.py">>}} :
    LET src_tests == SourceTestNames \cup more
        f == [p \in AllFiles |->
                IF p[1] = "junk-drawer"
                THEN SourceContent("junk-drawer", Tail(p), style_at, src_tests)
                ELSE IF p[1] = "repoB"
                THEN TargetContent(Tail(p), dest, FALSE, extras, src_tests)
                ELSE "absent"]
    IN /\ files = f
       /\ dirs = DirsOf(f, BaseDirs)
       /\ gitignore = [r \in Roots |-> IF r = "repoB" THEN DirtyGitignore ELSE NoFile]
       /\ gitmeta = [r \in Roots |-> IF r = "repoB" THEN GitLocked
                                     ELSE IF r = "junk-drawer" THEN GitShared
                                     ELSE GitNone]
       /\ agents = [r \in Roots |-> IF r = "repoB" THEN StaleAgents
                                    ELSE IF r = "junk-drawer" THEN CompleteAgents
                                    ELSE NoAgents]
       /\ cli = [source_dir |-> "none", repo_name |-> "none"]
       /\ plan = pl
       /\ script_home = "none"
       /\ scan_order = order

\* the arguments and the source tree vary: the tree is at tree_at, one of
\* its required files (or its tests directory) may be missing
SourceRequired ==
  {<<"docs", s>> : s \in Range(STYLE_FILES)}
  \cup {<<"devel", d>> : d \in Range(DEVEL_SCRIPTS)}
  \cup {<<"tests", t>> : t \in Range(TEST_SCRIPTS)}
InitArguments ==
  \E dry \in BOOLEAN, tree_at \in {"junk-drawer", "ext"},
     missing \in {{}} \cup {{rel} : rel \in SourceRequired} \cup {{<<"tests">>}},
     have_junk \in BOOLEAN, b_kind \in {"dir", "none"},
     sd_arg \in {"none", "ext"}, home \in {"none", "ext"},
     target \in {"none", "repoB", "junk-drawer", "nosuch"} :
    LET f == [p \in AllFiles |->
                IF p[1] = tree_at /\ Tail(p) \notin missing
                                  /\ ~(missing = {<<"tests">>} /\ p[2] = "tests")
                THEN SourceContent(tree_at, Tail(p), "docs", SourceTestNames)
                ELSE "absent"]
        base == IF have_junk \/ tree_at = "junk-drawer" THEN BaseDirs ELSE {"repoB"}
    IN /\ files = f
       /\ dirs = DirsOf(f, base \cup (IF tree_at = "ext" THEN {"ext"} ELSE {}))
       /\ gitignore = [r \in Roots |-> NoFile]
       /\ gitmeta = [r \in Roots |->
                       IF r = "repoB" /\ b_kind = "dir" THEN GitLocked
                       ELSE IF r = "junk-drawer" /\ tree_at = "junk-drawer"
                       THEN GitShared ELSE GitNone]
       /\ agents = [r \in Roots |-> NoAgents]
       /\ cli = [source_dir |-> sd_arg, repo_name |-> target]
       /\ plan = <<dry>>
       /\ script_home = home
       /\ scan_order = <<".cache", "junk-drawer", "notes.txt", "repoB">>

Init ==
  /\ \/ InitExternal({<<TRUE, FALSE>>, <<FALSE, FALSE>>}, TargetProfiles,
                     TargetExtras, BOOLEAN,
                     {{}, {"test_pyflakes.py"}, {"test_import_dot.py"}})
     \/ InitInBase
     \/ InitArguments
  /\ InitCommon(0)

\* the same program under I/O failures injected by the environment
InitF ==
  /\ InitExternal({<<TRUE, FALSE>>, <<FALSE, FALSE>>}, TargetProfiles,
                  {{}, {<<"pyproject.toml">>, <<"src", "main.py">>}}, {TRUE},
                  {{}, {"test_import_dot.py"}})
  /\ InitCommon(MaxFaults)

Spec == Init /\ [][Next]_vars
SpecF == InitF /\ [][Next]_vars

\* the failures again, with the source repo among the repos of base_dir too
InitFB == InitF \/ (InitInBase /\ InitCommon(MaxFaults))
SpecFB == InitFB /\ [][Next]_vars

\* ========================================================================
\* The functions called on their own, on inputs drawn from bounded sets
\* ========================================================================
MaxLines == 3
mainvars ==
  <<fsvars, cli, plan, script_home, scan_order, platform, mapvars, run, pc,
    repo_dirs, ri, fi, repo_python, counts, prev_counts, fs0, py0, last, faultvars>>
\* main() is not running
IdleMain ==
  /\ files = [p \in AllFiles |-> "absent"]
  /\ dirs = {}
  /\ gitignore = [r \in Roots |-> NoFile]
  /\ gitmeta = [r \in Roots |-> GitNone]
  /\ agents = [r \in Roots |-> NoAgents]
  /\ cli = [source_dir |-> "none", repo_name |-> "none"]
  /\ plan = <<FALSE>>
  /\ script_home = "none"
  /\ scan_order = <<>>
  /\ run = 1
  /\ pc = "idle"
  /\ source_dir = "none"
  /\ source_map = <<>>
  /\ devel_source_map = <<>>
  /\ test_source_map = <<>>
  /\ test_scripts = <<>>
  /\ repo_dirs = <<>>
  /\ ri = 1
  /\ fi = 1
  /\ repo_python = FALSE
  /\ counts = ZeroCounts
  /\ prev_counts = ZeroCounts
  /\ fs0 = FS
  /\ py0 = FALSE
  /\ last = NoStep
  /\ faults = 0
  /\ fault_budget = 0
SeqsUpTo(S, n) == UNION {[1..k -> S] : k \in 0..n}

\* .gitignore inputs: plain, right-padded, indented, blank and
\* whitespace-only lines; a deprecated and a required entry among them
GitignoreLines ==
  {EntryLine("a"), MkLine(FALSE, "a", TRUE), EntryLine("b"), BlankLine,
   MkLine(FALSE, "", TRUE), EntryLine("pyflakes.txt"), EntryLine(".DS_Store"),
   MkLine(TRUE, ".DS_Store", FALSE)}
GitignoreExample ==
  TextFile(<<EntryLine("a"), BlankLine, EntryLine("a"), EntryLine("b"),
             EntryLine("a")>>, TRUE)
GitignoreFiles ==
  {NoFile, GitignoreExample}
  \cup {TextFile(l, TRUE) : l \in SeqsUpTo(GitignoreLines, MaxLines)}
  \cup {TextFile(l, FALSE) :
          l \in {m \in SeqsUpTo(GitignoreLines, MaxLines) :
                   m # <<>> /\ Last(m) # BlankLine}}
\* the lists process_gitignore passes on, and lists sharing an entry
ShippedLists ==
  [deprecated |-> DEPRECATED_GITIGNORE_ENTRIES,
   required |-> REQUIRED_GITIGNORE_ENTRIES]
SharedEntryLists ==
  [deprecated |-> DEPRECATED_GITIGNORE_ENTRIES \o <<".DS_Store">>,
   required |-> REQUIRED_GITIGNORE_ENTRIES]
NoPass == [ran |-> FALSE]
GitignoreCall(gi, dry, lists, start) ==
  [fn |-> "process_gitignore", start |-> start, at |-> start, round |-> 1,
   dry |-> dry, lists |-> lists, gi0 |-> gi, gi |-> gi,
   remove |-> NoPass, dedup |-> NoPass, ensure |-> NoPass, first |-> NoPass]
InitGitignoreCall ==
  \E gi \in GitignoreFiles, dry \in BOOLEAN,
     how \in {<<ShippedLists, "remove">>, <<SharedEntryLists, "remove">>,
              <<ShippedLists, "dedup">>, <<ShippedLists, "ensure">>} :
    /\ call = GitignoreCall(gi, dry, how[1], how[2])
    /\ platform = "linux"

\* line 874: remove_gitignore_entries
PassRemove ==
  /\ call.fn = "process_gitignore" /\ call.at = "remove"
  /\ LET r == remove_gitignore_entries(call.gi, call.lists.deprecated, call.dry)
     IN call' = [call EXCEPT !.at = "dedup", !.gi = r.file,
                             !.remove = [ran |-> TRUE, input |-> call.gi, r |-> r]]
  /\ UNCHANGED mainvars
\* line 887: deduplicate_gitignore
PassDeduplicate ==
  /\ call.fn = "process_gitignore" /\ call.at = "dedup"
  /\ LET r == deduplicate_gitignore(call.gi, call.dry)
     IN call' = [call EXCEPT !.at = "ensure", !.gi = r.file,
                             !.dedup = [ran |-> TRUE, input |-> call.gi, r |-> r]]
  /\ UNCHANGED mainvars
\* line 906: ensure_gitignore_entries
PassEnsure ==
  /\ call.fn = "process_gitignore" /\ call.at = "ensure"
  /\ LET r == ensure_gitignore_entries(call.gi, call.lists.required, call.dry)
     IN call' = [call EXCEPT !.at = "done", !.gi = r.file,
                             !.ensure = [ran |-> TRUE, input |-> call.gi, r |-> r]]
  /\ UNCHANGED mainvars
\* process_gitignore is called once more on the file it left
SecondCall ==
  /\ call.fn = "process_gitignore" /\ call.at = "done"
  /\ call.start = "remove" /\ call.round = 1
  /\ call' = [call EXCEPT !.at = "remove", !.round = 2,
                          !.remove = NoPass, !.dedup = NoPass, !.ensure = NoPass,
                          !.first = [ran |-> TRUE, gi |-> call.gi,
                                     counts |-> gitignore_counts(call.remove.r,
                                                  call.dedup.r, call.ensure.r)]]
  /\ UNCHANGED mainvars

\* .git inputs: rwx------, rwxr-xr-x, rwxrwxr-x and rwxr-sr-x entries, some
\* missing (-1), some that os.stat fails on
GitModes == {448, 493, 509, 1517}
GitMetas ==
  {GitNone, [GitNone EXCEPT !.kind = "file"]}
  \cup {[kind |-> "dir", modes |-> m, nostat |-> ns] :
          m \in {f \in [GitNames -> GitModes \cup {-1}] : f[".git"] >= 0},
          ns \in SUBSET {"index", "HEAD"}}
InitGitPermsCall ==
  \E meta \in GitMetas, dry \in BOOLEAN :
    /\ call = [fn |-> "ensure_git_perms", at |-> "call", dry |-> dry,
               meta0 |-> meta, r |-> NoPass]
    /\ platform = "linux"
\* ensure_git_perms on one repo
CallEnsureGitPerms ==
  /\ call.fn = "ensure_git_perms" /\ call.at = "call"
  /\ call' = [call EXCEPT !.at = "done",
                          !.r = ensure_git_perms(call.meta0, call.dry)]
  /\ UNCHANGED mainvars

\* AGENTS.md inputs: lines with a stale reference, with every marker of the
\* coding-style block, with the environment header alone or inside a longer
\* heading, with an environment line, plain and blank lines; the last line
\* with or without its newline
AgentsLines ==
  {<<coding_style_header>>,
   <<"text", "PYTHON_STYLE.md">>,
   <<"text", "CHANGELOG.md">>,
   <<coding_style_header, style_paths["PYTHON_STYLE.md"],
     style_paths["MARKDOWN_STYLE.md"], style_paths["REPO_STYLE.md"],
     "docs/CHANGELOG.md", user_request_marker, tests_required_marker,
     tests_allowed_marker>>,
   <<environment_header>>,
   <<environment_header, "text">>,
   <<"text", site_packages_marker>>,
   <<"text", interpreter_marker>>,
   <<"text">>,
   <<>>}
AgentsFiles ==
  {NoAgents}
  \cup {AgentsText([i \in 1..Len(l) |-> ALine(l[i])]) :
          l \in SeqsUpTo(AgentsLines, MaxLines)}
  \cup {AgentsText([i \in 1..Len(l) |-> [toks |-> l[i], nl |-> i < Len(l)]]) :
          l \in {m \in SeqsUpTo(AgentsLines, MaxLines) : m # <<>> /\ Last(m) # <<>>}}
InitAgentsCall ==
  \E a \in AgentsFiles, dry \in BOOLEAN :
    /\ call = [fn |-> "ensure_agents_file", at |-> "call", dry |-> dry,
               a0 |-> a, r |-> NoPass, again |-> NoPass]
    /\ platform \in Platforms
\* ensure_agents_file on one AGENTS.md
CallEnsureAgentsFile ==
  /\ call.fn = "ensure_agents_file" /\ call.at = "call"
  /\ call' = [call EXCEPT !.at = "done",
                          !.r = ensure_agents_file(call.a0, call.dry, is_macos)]
  /\ UNCHANGED mainvars
\* ensure_agents_file once more, on the file the first call left
SecondAgentsCall ==
  /\ call.fn = "ensure_agents_file" /\ call.at = "done"
  /\ call' = [call EXCEPT !.at = "again",
                          !.again = ensure_agents_file(call.r.agents, call.dry, is_macos)]
  /\ UNCHANGED mainvars

InitCalls ==
  /\ IdleMain
  /\ \/ InitGitignoreCall
     \/ InitGitPermsCall
     \/ InitAgentsCall
NextCalls ==
  \/ PassRemove
  \/ PassDeduplicate
  \/ PassEnsure
  \/ SecondCall
  \/ CallEnsureGitPerms
  \/ CallEnsureAgentsFile
  \/ SecondAgentsCall
SpecCalls == InitCalls /\ [][NextCalls]_vars

\* ========================================================================
\* Properties
\* ========================================================================
RunDone == pc = "done"
ChangeCounters ==
  {"copied", "updated", "copied_tests", "updated_tests", "copied_devel",
   "updated_devel"}
SyncCounters ==
  ChangeCounters \cup
  {"skipped_same", "skipped_source", "skipped_same_tests",
   "skipped_source_tests", "skipped_same_devel", "skipped_source_devel",
   "skipped_tests_no_python", "skipped_devel_no_pyproject"}
IsTestName(name) == StartsWithTest(name) /\ EndsWithPy(name)
SourceMaps == <<source_map, devel_source_map, test_source_map>>

\* C1: two real runs in succession, the source files untouched in between:
\* the second run copies and updates nothing and reports no error.
C1_SecondRunIdle ==
  (plan = <<FALSE, FALSE>> /\ run = 2 /\ RunDone)
    => /\ \A c \in ChangeCounters : counts[c] = 0
       /\ counts["errors"] = 0

\* C2: a dry run and a real run from the same filesystem end with equal
\* file-synchronization counters (the real run follows the dry run, which
\* leaves the filesystem as it found it).
C2_DryRunParity ==
  (plan = <<TRUE, FALSE>> /\ run = 2 /\ RunDone)
    => \A c \in SyncCounters : counts[c] = prev_counts[c]

\* C3: throughout a dry run the filesystem (files, directories, .gitignore
\* texts, .git modes, AGENTS.md) is the one the run found.
C3_DryRunReadOnly == dry_run => FS = fs0
\* a dry run that reported a would-be change of every kind
C3_Witness ==
  /\ dry_run /\ RunDone
  /\ counts["git_perms_changed"] > 0
  /\ counts["gitignore_updated"] > 0 /\ counts["gitignore_cleaned"] > 0
  /\ counts["gitignore_deprecated_removed"] > 0
  /\ counts["created_tests_dirs"] > 0 /\ counts["created_conftest"] > 0
  /\ counts["created_devel_dirs"] > 0 /\ counts["created_changelog"] > 0
  /\ counts["copied"] > 0 /\ counts["copied_tests"] > 0
  /\ counts["updated_agents"] > 0

\* C4: a file past its gate whose comparison and copy did not fail is
\* skip_source when destination and source are one path, else skip_same when
\* the destination exists with the source's bytes, else update when it
\* exists, else copy; a skip writes nothing, and a real-run copy or update
\* leaves the destination with the source's content.
C4_Decision(step) ==
  IF step.dst_is_src THEN "skip_source"
  ELSE IF step.dest_exists /\ step.is_same THEN "skip_same"
  ELSE IF step.dest_exists THEN "update"
  ELSE "copy"
C4_SyncDecision ==
  (last.cls # "none" /\ ~last.gated /\ last.outcome # "error")
    => /\ last.outcome = C4_Decision(last)
       /\ last.outcome \in {"skip_source", "skip_same"} => ~last.wrote
       /\ (last.outcome \in {"copy", "update"} /\ ~plan[last.run])
            => /\ last.wrote
               /\ files[last.dest] # "absent"
               /\ files[last.dest] = files[last.source]
       /\ (last.outcome \in {"copy", "update"} /\ plan[last.run]) => ~last.wrote
\* a real-run update of a differing destination
C4_Witness ==
  /\ last.outcome = "update" /\ last.wrote /\ ~last.is_same
  /\ files[last.dest] = "canon"

\* C5: a failing comparison or copy of one managed file adds one to errors
\* and to no other counter, and the loop goes on to the next file.
SyncPositions == {"styles", "tests", "devel"}
C5_SyncErrorCounted ==
  [][(pc \in SyncPositions /\ faults' = faults + 1)
       => /\ counts' = Inc(counts, "errors")
          /\ last'.outcome = "error"
          /\ files' = files
          /\ pc' \in SyncPositions \cup {"python", "agents"}
          /\ ri' = ri
          /\ (pc' = pc => fi' = fi + 1)]_vars
\* a run that ended with its summary after one file failed
C5_Witness ==
  /\ RunDone /\ faults = 1 /\ counts["errors"] = 1
  /\ counts["skipped_same"] + counts["copied"] + counts["updated"] > 0

\* C6: after setup no I/O failure halts the run, and each one is counted in
\* errors.
C6_FailureIsolated ==
  /\ pc # "crashed"
  /\ pc \notin {"setup", "aborted"} => counts["errors"] >= faults

\* C7: in a repo that held no Python file when the loop reached it, a
\* test_*.py script is gated (counted in skipped_tests_no_python, nothing
\* written); a test script of another name is never gated.
C7_NoPythonGate ==
  last.cls = "tests"
    => /\ (IsTestName(last.file) /\ ~last.py0)
            => (last.outcome = "gated" /\ ~last.wrote)
       /\ ~IsTestName(last.file) => ~last.gated

\* C8 (as stated): submit_to_pypi.py is gated exactly when no pyproject.toml
\* exists anywhere under the repo.
AnyPyproject(repo) ==
  \E p \in AllFiles : p[1] = repo /\ isfile(p) /\ Last(p) = "pyproject.toml"
ReachedPyproject(repo) ==
  \E p \in AllFiles :
    /\ p[1] = repo /\ isfile(p) /\ Last(p) = "pyproject.toml"
    /\ \A i \in 2..(Len(p) - 1) : p[i] \notin SKIP_WALK_DIRS /\ ~StartsWithDot(p[i])
C9_TargetBad ==
  /\ cli.repo_name # "none"
  /\ \/ <<cli.repo_name>> \notin fs0.dirs
     \/ cli.repo_name \notin Roots
     \/ fs0.gitmeta[cli.repo_name].kind = "none"
C9_SourceDir ==
  IF cli.source_dir # "none" THEN cli.source_dir
  ELSE IF <<"junk-drawer">> \in fs0.dirs THEN "junk-drawer"
  ELSE IF /\ script_home # "none"
          /\ \A s \in Range(STYLE_FILES) :
               fs0.files[<<script_home, "docs", s>>] # "absent"
  THEN script_home
  ELSE "none"
C9_SourceIncomplete(sd) ==
  \/ \E s \in Range(STYLE_FILES) :
       fs0.files[<<sd, "docs", s>>] = "absent" /\ fs0.files[<<sd, s>>] = "absent"
  \/ \E d \in Range(DEVEL_SCRIPTS) : fs0.files[<<sd, "devel", d>>] = "absent"
  \/ <<sd, "tests">> \notin fs0.dirs
  \/ \E t \in Range(TEST_SCRIPTS) : fs0.files[<<sd, "tests", t>>] = "absent"
C9_SetupDefect ==
  \/ C9_TargetBad
  \/ C9_SourceDir = "none"
  \/ C9_SourceIncomplete(C9_SourceDir)
C9_SetupFailsEarly ==
  (run = 1 /\ C9_SetupDefect)
    => /\ pc \in {"setup", "aborted"}
       /\ FS = fs0
       /\ repo_dirs = <<>>
       /\ counts = ZeroCounts
\* a run aborted because a test script is missing from the source directory
C9_Witness ==
  /\ pc = "aborted"
  /\ ~C9_TargetBad
  /\ C9_SourceDir = "ext"
  /\ fs0.files[<<"ext", "tests", "test_import_star.py">>] = "absent"
  /\ \A d \in Range(DEVEL_SCRIPTS) : fs0.files[<<"ext", "devel", d>>] # "absent"

\* C10: every file of the source maps keeps, throughout the run, the
\* content it had when the run started.
C10_SourceImmutable ==
  pc \notin {"setup", "aborted"}
    => \A k \in 1..Len(SourceMaps) :
         \A f \in DOMAIN SourceMaps[k] :
           files[SourceMaps[k][f]] = fs0.files[SourceMaps[k][f]]

\* ------------------------------------------------------------------------
\* The .gitignore passes
\* ------------------------------------------------------------------------
GitignoreAt(pass) == call.fn = "process_gitignore" /\ pass.ran
Trimmed(lines) == [i \in 1..Len(lines) |-> RStrip(lines[i])]
\* the lines of t at the positions K, in order
Pick(t, K) ==
  LET F[i \in 0..Len(t)] ==
        IF i = 0 THEN <<>>
        ELSE IF i \in K THEN Append(F[i - 1], t[i]) ELSE F[i - 1]
  IN F[Len(t)]
FirstOccurrences(t) ==
  {i \in 1..Len(t) : t[i] = BlankLine \/ ~\E j \in 1..(i - 1) : t[j] = t[i]}

WholeCall == call.fn = "process_gitignore" /\ call.start = "remove" /\ call.at = "done"
Blanks(lines) == Cardinality({i \in 1..Len(lines) : lines[i] = BlankLine})
EntrySet(entries) == {EntryLine(e) : e \in Range(entries)}
\* the positions that match no deprecated entry and repeat no earlier
\* surviving line
Survivors(lines, deprecated) ==
  LET t == Trimmed(lines)
      kept1 == {i \in 1..Len(lines) : Strip(lines[i]) \notin EntrySet(deprecated)}
  IN {i \in kept1 :
        t[i] = BlankLine \/ ~\E j \in kept1 : j < i /\ t[j] = t[i]}

\* C12: a whole reconciliation of an existing file leaves its lines,
\* right-trimmed and in their order, less those matching a deprecated entry
\* and the non-blank repeats of an earlier line, followed by appended
\* required entries only: blank lines keep their places and are never fewer.
C12_BlanksKept ==
  (WholeCall /\ call.round = 1 /\ call.gi0.exists)
    => IF call.dry THEN call.gi = call.gi0
       ELSE LET old == Pick(Trimmed(call.gi0.lines),
                            Survivors(call.gi0.lines, call.lists.deprecated))
                new == call.gi.lines
            IN /\ Len(new) >= Len(old)
               /\ SubSeq(new, 1, Len(old)) = old
               /\ \A i \in (Len(old) + 1)..Len(new) :
                    new[i] \in EntrySet(call.lists.required)
               /\ Blanks(new) >= Blanks(call.gi0.lines)
\* a real run that dropped a repeated line around a blank one
C12_Witness ==
  /\ WholeCall /\ call.round = 1 /\ ~call.dry
  /\ call.dedup.r.duplicates > 0
  /\ Blanks(call.gi0.lines) > 0
  /\ Blanks(call.gi.lines) >= Blanks(call.gi0.lines)

\* C13: after a real-run reconciliation with the module's lists every
\* required entry is, up to surrounding whitespace, exactly one line of the
\* file; lines_added is the number of entries that were missing, and the
\* file is reported created exactly when it was absent.
Occurrences(lines, e) ==
  Cardinality({i \in 1..Len(lines) : Strip(lines[i]) = EntryLine(e)})
C13_RequiredOnce ==
  (WholeCall /\ call.round = 1 /\ ~call.dry /\ call.lists = ShippedLists)
    => /\ call.gi.exists
       /\ \A e \in Range(REQUIRED_GITIGNORE_ENTRIES) :
            Occurrences(call.gi.lines, e) = 1
       /\ call.ensure.r.lines_added =
            Cardinality({e \in Range(REQUIRED_GITIGNORE_ENTRIES) :
                           Occurrences(call.ensure.input.lines, e) = 0})
       /\ call.ensure.r.created = ~call.gi0.exists

ZeroGitignoreCounts ==
  [created |-> 0, updated |-> 0, lines_added |-> 0, cleaned |-> 0,
   dup_removed |-> 0, whitespace_cleaned |-> 0, deprecated_removed_files |-> 0,
   deprecated_removed_entries |-> 0]
CallCounts == gitignore_counts(call.remove.r, call.dedup.r, call.ensure.r)
C15_GitignoreIdempotent ==
  (WholeCall /\ call.round = 2 /\ ~call.dry /\ call.lists = ShippedLists)
    => /\ CallCounts = ZeroGitignoreCounts
       /\ call.gi = call.first.gi
\* the second call after a first one that removed, deduplicated and added
C15_Witness ==
  /\ WholeCall /\ call.round = 2 /\ ~call.dry /\ call.lists = ShippedLists
  /\ call.first.counts.deprecated_removed_entries > 0
  /\ call.first.counts.dup_removed > 0
  /\ call.first.counts.lines_added > 0

\* C16: in either mode the counts of pass 2 are those of pass 2 on the
\* output of pass 1, the counts of pass 3 those of pass 3 on the output of
\* pass 2, and so the eight counts are those of a real run on the same file.
C16_PassesCompose ==
  (WholeCall /\ call.round = 1)
    => LET p1 == remove_gitignore_entries(call.gi0, call.lists.deprecated, FALSE)
           p2 == deduplicate_gitignore(p1.file, FALSE)
           p3 == ensure_gitignore_entries(p2.file, call.lists.required, FALSE)
       IN /\ call.dedup.r.duplicates = p2.duplicates
          /\ call.dedup.r.whitespace = p2.whitespace
          /\ call.ensure.r.lines_added = p3.lines_added
          /\ call.ensure.r.created = p3.created
          /\ CallCounts = gitignore_counts(p1, p2, p3)

\* ------------------------------------------------------------------------
\* ensure_git_perms
\* ------------------------------------------------------------------------
PermBits == 0..11
Bit(mode, k) == (mode \div 2^k) % 2
GroupWriteBit == CHOOSE k \in PermBits : 2^k = GROUP_WRITE
Statable(meta) == {n \in GitNames : meta.modes[n] >= 0 /\ n \notin meta.nostat}

\* C17: on a repo with a .git directory, a real run leaves every entry that
\* can be stat-ed with the group-write bit set and its other bits as they
\* were, and every other entry untouched; the result is true exactly when
\* one of those entries lacked the bit; a dry run returns the same and
\* changes no mode.
C17_GroupWrite ==
  (call.fn = "ensure_git_perms" /\ call.at = "done" /\ call.meta0.kind = "dir")
    => LET old == call.meta0
           new == call.r.meta
       IN /\ call.r.changed
               <=> \E n \in Statable(old) : Bit(old.modes[n], GroupWriteBit) = 0
          /\ call.dry => new = old
          /\ ~call.dry =>
               /\ new.kind = old.kind /\ new.nostat = old.nostat
               /\ \A n \in GitNames :
                    IF n \in Statable(old)
                    THEN /\ Bit(new.modes[n], GroupWriteBit) = 1
                         /\ \A k \in PermBits \ {GroupWriteBit} :
                              Bit(new.modes[n], k) = Bit(old.modes[n], k)
                    ELSE new.modes[n] = old.modes[n]
\* a real run that set the bit on a set-group-id directory and passed over
\* an entry it could not stat
C17_Witness ==
  /\ call.fn = "ensure_git_perms" /\ call.at = "done" /\ ~call.dry
  /\ call.meta0.kind = "dir"
  /\ call.meta0.modes["objects"] = 1517 /\ call.r.meta.modes["objects"] = 1533
  /\ "HEAD" \in call.meta0.nostat
  /\ call.meta0.modes["HEAD"] = 448 /\ call.r.meta.modes["HEAD"] = 448
  /\ call.r.changed

\* ------------------------------------------------------------------------
\* AGENTS.md
\* ------------------------------------------------------------------------
AgentsDone == call.fn = "ensure_agents_file" /\ call.at = "done"
\* old is found in new, line for line and in order, each line as it was or
\* with its stale references given their docs/ path
RECURSIVE LinesKept(_, _)
LinesKept(old, new) ==
  IF old = <<>> THEN TRUE
  ELSE IF new = <<>> THEN FALSE
  ELSE IF Head(new).toks \in {Head(old).toks, FixReferences(Head(old)).toks}
       THEN LinesKept(Tail(old), Tail(new))
       ELSE LinesKept(old, Tail(new))

\* C18: whatever ensure_agents_file does to an existing AGENTS.md, every
\* line of it is still there, in order, unchanged or with a stale reference
\* replaced by its docs/ path, and the lines are never fewer.
C18_AdditiveOnly ==
  (AgentsDone /\ call.a0.exists)
    => /\ call.r.agents.exists
       /\ Len(call.r.agents.lines) >= Len(call.a0.lines)
       /\ LinesKept(call.a0.lines, call.r.agents.lines)

\* C19: after a real-run ensure_agents_file the file exists and holds every
\* required marker; an absent file gets the fixed block; in an existing
\* file the line of each marker that was missing follows every line the
\* file had, in the block's order, and every line before it ends with a
\* newline.
RequiredMarkers ==
  <<coding_style_header, "PYTHON_STYLE.md", "MARKDOWN_STYLE.md", "REPO_STYLE.md",
    "docs/CHANGELOG.md", user_request_marker, tests_required_marker,
    tests_allowed_marker>>
MarkerLine(marker) ==
  CHOOSE l \in Range(build_agents_coding_style_block(FALSE)) : InLine(marker, l)
MissingMarkerLines(lines) ==
  LET fixed == [i \in 1..Len(lines) |-> FixReferences(lines[i])]
      missing == SelectSeq(RequiredMarkers, LAMBDA m : ~InContent(m, fixed))
  IN [i \in 1..Len(missing) |-> MarkerLine(missing[i])]
C19_MarkersPresent ==
  (AgentsDone /\ ~call.dry)
    => LET new == call.r.agents.lines
           added == MissingMarkerLines(call.a0.lines)
       IN /\ call.r.agents.exists
          /\ \A m \in Range(RequiredMarkers) : InContent(m, new)
          /\ ~call.a0.exists => new = build_agents_coding_style_block(is_macos)
          /\ (call.a0.exists /\ added # <<>>)
               => \E k \in Len(JoinLines(call.a0.lines))..Len(new) :
                    /\ SubSeq(new, k + 1, k + Len(added)) = added
                    /\ \A i \in 1..k : new[i].nl
\* a file with a stale reference and no final newline got the missing lines
C19_Witness ==
  /\ AgentsDone /\ ~call.dry /\ call.a0.exists
  /\ call.a0.lines # <<>> /\ ~Last(call.a0.lines).nl
  /\ InContent("PYTHON_STYLE.md", call.a0.lines)
  /\ ~InContent(style_paths["PYTHON_STYLE.md"], call.a0.lines)
  /\ InContent(style_paths["PYTHON_STYLE.md"], call.r.agents.lines)
  /\ Len(MissingMarkerLines(call.a0.lines)) > 1

\* C20: on macOS a real run on an existing AGENTS.md leaves both environment
\* lines in the file; when the file has the Environment header the missing
\* ones are the lines right after it, and when it has none a blank line,
\* the header and the environment lines end the file.
MissingEnvironmentLines(lines) ==
  (IF InContent(interpreter_marker, lines) THEN <<>>
   ELSE macos_python312_interpreter_line)
  \o (IF InContent(site_packages_marker, lines) THEN <<>>
      ELSE macos_site_packages_line)
HeaderLines(lines) == {i \in 1..Len(lines) : lines[i].toks = <<environment_header>>}
C20_EnvironmentLines ==
  (AgentsDone /\ ~call.dry /\ is_macos /\ call.a0.exists)
    => LET old == call.a0.lines
           new == call.r.agents.lines
           env == MissingEnvironmentLines(old)
       IN /\ InContent(interpreter_marker, new)
          /\ InContent(site_packages_marker, new)
          /\ (env # <<>> /\ InContent(environment_header, old))
               => \E i \in HeaderLines(new) :
                    /\ \A j \in HeaderLines(new) : i <= j
                    /\ SubSeq(new, i + 1, i + Len(env)) = env
          /\ (env # <<>> /\ ~InContent(environment_header, old))
               => /\ Len(new) >= Len(env) + 2
                  /\ SubSeq(new, Len(new) - Len(env) - 1, Len(new))
                       = <<ALine(<<>>), ALine(<<environment_header>>)>> \o env

-----------------------------------------------------------------------------
(* The lint checks of src/tests: test_import_dot.py and test_init_files.py.   *)
(* A source file is its lines.  A line is blank, a comment, code that holds   *)
(* the statements starting on it, or text the parser rejects (with or without *)
(* a line number in the SyntaxError); depth is the                            *)
(* nesting depth of its statements and width its length without indentation.  *)
(* A file that cannot be decoded has no text at all.  The text of a report    *)
(* line is a sequence of glyphs, so that its order and its form can be read   *)
(* back from it.                                                              *)

MIN_SUBSTANTIVE_LINES == 20
MIN_CONTENT_CHARS == 100

Checks == {"import_dot", "init"}

REPORT_NAME(check) ==
  IF check = "import_dot" THEN "report_import_dot.txt" ELSE "report_init.txt"

ReportHeader(check) ==
  IF check = "import_dot" THEN <<"Import dot report">>
  ELSE <<"__init__.py style report">>

ViolationsLine == <<"Violations:">>

Stmt(type, level, module, targets, value) ==
  [type |-> type, level |-> level, module |-> module,
   targets |-> targets, value |-> value]

PyLine(kind, depth, width, stmts) ==
  [kind |-> kind, depth |-> depth, width |-> width, stmts |-> stmts]

PyFile(decodes, lines) == [decodes |-> decodes, lines |-> lines]

\* read_source: tokenize.open raises SyntaxError on a file it cannot decode.
read_source(file) ==
  IF file.decodes THEN [raises |-> FALSE, source |-> file.lines]
  ELSE [raises |-> TRUE, source |-> <<>>]

count_substantive_lines(source) ==
  Cardinality({i \in 1..Len(source) : source[i].kind \in {"code", "bad", "bad_no_lineno"}})

\* len(source.strip()): the text from the first to the last non-blank line,
\* the newlines between them included, without the first line's indentation.
RECURSIVE TextChars(_, _, _)
TextChars(source, i, j) ==
  IF i > j THEN 0
  ELSE source[i].depth + source[i].width
         + (IF i < j THEN 1 ELSE 0) + TextChars(source, i + 1, j)

StrippedChars(source) ==
  LET solid == {i \in 1..Len(source) : source[i].kind # "blank"}
  IN IF solid = {} THEN 0
     ELSE LET first == CHOOSE i \in solid : \A k \in solid : i <= k
              final == CHOOSE i \in solid : \A k \in solid : i >= k
          IN TextChars(source, first, final) - source[first].depth

should_check_file_both(source) ==
  /\ count_substantive_lines(source) >= MIN_SUBSTANTIVE_LINES
  /\ StrippedChars(source) >= MIN_CONTENT_CHARS

should_check_file(source) ==
  \/ count_substantive_lines(source) >= MIN_SUBSTANTIVE_LINES
  \/ StrippedChars(source) >= MIN_CONTENT_CHARS

\* ast.parse: a SyntaxError at the first rejected line (lineno 0 stands for a
\* SyntaxError without a line), else the statements with their line numbers.
RECURSIVE NodesFrom(_, _)
NodesFrom(source, i) ==
  IF i > Len(source) THEN <<>>
  ELSE [k \in 1..Len(source[i].stmts) |->
          [lineno |-> i, depth |-> source[i].depth, stmt |-> source[i].stmts[k]]]
         \o NodesFrom(source, i + 1)

ast_parse(source) ==
  LET bad == {i \in 1..Len(source) : source[i].kind \in {"bad", "bad_no_lineno"}}
  IN IF bad # {}
     THEN LET at == CHOOSE i \in bad : \A k \in bad : i <= k
          IN [error |-> TRUE, lineno |-> IF source[at].kind = "bad" THEN at ELSE 0,
              nodes |-> <<>>]
     ELSE [error |-> FALSE, lineno |-> 0, nodes |-> NodesFrom(source, 1)]

MaxDepth == 2

AtDepth(nodes, d) == SelectSeq(nodes, LAMBDA n : n.depth = d)

\* tree.body, and ast.walk(tree): breadth first, so level by level.
tree_body(tree) == AtDepth(tree.nodes, 0)

RECURSIVE WalkFrom(_, _)
WalkFrom(nodes, d) ==
  IF d > MaxDepth THEN <<>> ELSE AtDepth(nodes, d) \o WalkFrom(nodes, d + 1)

ast_walk(tree) == WalkFrom(tree.nodes, 0)

RECURSIVE Dots(_)
Dots(level) == IF level <= 0 THEN <<>> ELSE <<".">> \o Dots(level - 1)

RelativeMatches(nodes) ==
  LET rel == SelectSeq(nodes, LAMBDA n : n.stmt.type = "ImportFrom" /\ n.stmt.level > 0)
  IN [k \in 1..Len(rel) |->
        [line_no |-> rel[k].lineno,
         message |-> <<"relative import from ">>
                       \o Dots(rel[k].stmt.level) \o rel[k].stmt.module]]

\* faulty variant: only the statements of the module body are looked at
find_relative_imports_top_level(file) ==
  LET text == read_source(file)
      tree == ast_parse(text.source)
  IN IF text.raises THEN [raises |-> TRUE, matches |-> <<>>]
     ELSE IF tree.error THEN [raises |-> FALSE, matches |-> <<>>]
     ELSE [raises |-> FALSE, matches |-> RelativeMatches(tree_body(tree))]

find_relative_imports(file) ==
  LET text == read_source(file)
      tree == ast_parse(text.source)
  IN IF text.raises THEN [raises |-> TRUE, matches |-> <<>>]
     ELSE IF tree.error THEN [raises |-> FALSE, matches |-> <<>>]
     ELSE [raises |-> FALSE, matches |-> RelativeMatches(ast_walk(tree))]

is_module_docstring(node) ==
  node.stmt.type = "Expr" /\ node.stmt.value = "str"

extract_target_names(node) ==
  IF node.stmt.type \in {"Assign", "AnnAssign", "AugAssign"}
  THEN LET named == SelectSeq(node.stmt.targets, LAMBDA t : t.kind = "Name")
       IN [k \in 1..Len(named) |-> named[k].id]
  ELSE <<>>

\* The message find_init_issues gives a statement that is not a docstring.
InitMessage(node) ==
  LET type == node.stmt.type
      target_names == Range(extract_target_names(node))
  IN IF type \in {"Import", "ImportFrom"}
     THEN "imports are not allowed in __init__.py"
     ELSE IF type \in {"FunctionDef", "AsyncFunctionDef", "ClassDef"}
     THEN "definitions are not allowed in __init__.py"
     ELSE IF type \in {"Assign", "AnnAssign", "AugAssign"}
     THEN IF <<"__version__">> \in target_names
          THEN "__version__ must not be assigned in __init__.py"
          ELSE IF <<"__all__">> \in target_names
          THEN "__all__ is not allowed in __init__.py"
          ELSE IF \E name \in target_names : "EXPORTED_MODULES" \in Range(name)
          THEN "manual export lists are not allowed in __init__.py"
          ELSE IF \E name \in target_names : Last(name) = "_MAP"
          THEN "function/class maps are not allowed in __init__.py"
          ELSE "global assignments are not allowed in __init__.py"
     ELSE IF type = "If"
     THEN "conditional logic is not allowed in __init__.py"
     ELSE "implementation code is not allowed in __init__.py"

find_init_issues(file) ==
  LET text == read_source(file)
      tree == ast_parse(text.source)
      body == tree_body(tree)
      flagged == SelectSeq(body, LAMBDA n : ~is_module_docstring(n))
  IN IF text.raises THEN [raises |-> TRUE, matches |-> <<>>]
     ELSE IF ~should_check_file(text.source) THEN [raises |-> FALSE, matches |-> <<>>]
     ELSE IF tree.error
     THEN [raises |-> FALSE,
           matches |-> <<[line_no |-> IF tree.lineno = 0 THEN 1 ELSE tree.lineno,
                          message |-> <<"syntax error in __init__.py">>]>>]
     ELSE IF body = <<>> THEN [raises |-> FALSE, matches |-> <<>>]
     ELSE IF Len(body) = 1 /\ is_module_docstring(body[1])
     THEN [raises |-> FALSE, matches |-> <<>>]
     ELSE [raises |-> FALSE,
           matches |-> [k \in 1..Len(flagged) |->
                          [line_no |-> flagged[k].lineno,
                           message |-> <<InitMessage(flagged[k])>>]]]

find_issues(check, file) ==
  IF check = "import_dot" THEN find_relative_imports(file) ELSE find_init_issues(file)

\* The glyphs of report lines, in the order Python compares strings.
Glyphs ==
  <<" ", ".", "0", "1", "2", "3", "4", "5", "6", "7", "8", "9", ":",
    "__all__ is not allowed in __init__.py",
    "__version__ must not be assigned in __init__.py",
    "a", "b",
    "conditional logic is not allowed in __init__.py",
    "definitions are not allowed in __init__.py",
    "function/class maps are not allowed in __init__.py",
    "global assignments are not allowed in __init__.py",
    "implementation code is not allowed in __init__.py",
    "imports are not allowed in __init__.py",
    "manual export lists are not allowed in __init__.py",
    "pkg1/__init__.py", "pkg2/__init__.py", "pkg3/__init__.py", "pkg4/__init__.py",
    "relative import from ",
    "syntax error in __init__.py",
    "x">>

GlyphRank(g) == CHOOSE i \in 1..Len(Glyphs) : Glyphs[i] = g

RECURSIVE TextLess(_, _)
TextLess(a, b) ==
  IF a = <<>> THEN b # <<>>
  ELSE IF b = <<>> THEN FALSE
  ELSE IF Head(a) = Head(b) THEN TextLess(Tail(a), Tail(b))
  ELSE GlyphRank(Head(a)) < GlyphRank(Head(b))

\* sorted(set(issues))
RECURSIVE SortedTexts(_)
SortedTexts(S) ==
  IF S = {} THEN <<>>
  ELSE LET least == CHOOSE x \in S : \A y \in S : x = y \/ TextLess(x, y)
       IN <<least>> \o SortedTexts(S \ {least})

\* str(line_no)
RECURSIVE Decimal(_)
Decimal(n) ==
  LET digit == <<"0", "1", "2", "3", "4", "5", "6", "7", "8", "9">>[(n % 10) + 1]
  IN IF n < 10 THEN <<digit>> ELSE Decimal(n \div 10) \o <<digit>>

format_issue(rel_path, line_no, message) ==
  <<rel_path, ":">> \o Decimal(line_no) \o <<":", " ">> \o message

NoReport == [exists |-> FALSE, lines |-> <<>>]

\* reset_import_dot_report, reset_init_report
reset_report(report) == NoReport

\* faulty variant: the two heading lines are written on every append
append_report_heading_always(report, check, issues) ==
  [exists |-> TRUE,
   lines |-> report.lines \o <<ReportHeader(check), ViolationsLine>> \o issues]

\* append_import_dot_report, append_init_report
append_report(report, check, issues) ==
  [exists |-> TRUE,
   lines |-> (IF report.exists THEN report.lines
              ELSE <<ReportHeader(check), ViolationsLine>>) \o issues]

NoFilePath == ""

\* test_import_dot, test_init_files: one parametrized test, for one file.
test_file(check, file_path, file, report) ==
  LET found == find_issues(check, file)
      issues == SortedTexts({format_issue(file_path, found.matches[k].line_no,
                                          found.matches[k].message)
                               : k \in 1..Len(found.matches)})
      passed == [outcome |-> "passed", raised |-> "", found |-> found,
                 issues |-> <<>>, display_report |-> "", report |-> report]
  IN IF file_path = NoFilePath
     THEN [passed EXCEPT !.found = [raises |-> FALSE, matches |-> <<>>]]
     ELSE IF found.raises
     THEN [outcome |-> "failed", raised |-> "SyntaxError", found |-> found,
           issues |-> <<>>, display_report |-> "", report |-> report]
     ELSE IF found.matches = <<>> THEN passed
     ELSE [outcome |-> "failed", raised |-> "AssertionError", found |-> found,
           issues |-> issues, display_report |-> REPORT_NAME(check),
           report |-> append_report(report, check, issues)]

FilePaths ==
  <<"pkg1/__init__.py", "pkg2/__init__.py", "pkg3/__init__.py", "pkg4/__init__.py">>

\* _FILES of test_import_dot and _PARAMS of test_init_files, which holds one
\* empty path when no file was collected.
Params(check, sources) ==
  IF check = "init" /\ sources = <<>> THEN <<NoFilePath>>
  ELSE [i \in 1..Len(sources) |-> FilePaths[i]]

LintCall(check, sources, report) ==
  [fn |-> "lint", check |-> check, sources |-> sources,
   params |-> Params(check, sources), pos |-> 0,
   report |-> report, results |-> <<>>]

\* The module fixture: it runs before the first test of the module.
ResetReport ==
  /\ call.fn = "lint"
  /\ call.pos = 0
  /\ call.params # <<>>
  /\ call' = [call EXCEPT !.report = reset_report(call.report), !.pos = 1]
  /\ UNCHANGED mainvars

TestFile ==
  /\ call.fn = "lint"
  /\ call.pos \in 1..Len(call.params)
  /\ LET file_path == call.params[call.pos]
         file == IF file_path = NoFilePath THEN PyFile(TRUE, <<>>)
                 ELSE call.sources[call.pos]
         result == test_file(call.check, file_path, file, call.report)
     IN call' = [call EXCEPT !.report = result.report,
                             !.results = Append(@, result),
                             !.pos = @ + 1]
  /\ UNCHANGED mainvars

MaxStmts == 2
MaxFiles == 2

Name(id) == [kind |-> "Name", id |-> id]
Import == Stmt("Import", 0, <<>>, <<>>, "")
ImportFrom(level, module) == Stmt("ImportFrom", level, module, <<>>, "")
Assign(type, targets) == Stmt(type, 0, <<>>, targets, "")
Plain(type) == Stmt(type, 0, <<>>, <<>>, "")
Docstring == Stmt("Expr", 0, <<>>, <<>>, "str")
Code(depth, width, stmts) == PyLine("code", depth, width, stmts)

\* The lines files are made of; a nested line is met after a FunctionDef or
\* ClassDef line only.
TopLines ==
  { PyLine("blank", 0, 0, <<>>), PyLine("comment", 0, 9, <<>>),
    PyLine("bad", 0, 7, <<>>), PyLine("bad_no_lineno", 0, 7, <<>>),
    Code(0, 9, <<Import>>),
    Code(0, 15, <<ImportFrom(1, <<>>)>>),
    Code(0, 19, <<ImportFrom(0, <<"a">>)>>),
    Code(0, 31, <<ImportFrom(1, <<>>), ImportFrom(1, <<>>)>>),
    Code(0, 17, <<ImportFrom(2, <<"a", ".", "b">>)>>),
    Code(0, 9, <<Plain("FunctionDef")>>), Code(0, 8, <<Plain("ClassDef")>>),
    Code(0, 15, <<Plain("AsyncFunctionDef")>>),
    Code(0, 5, <<Plain("If")>>), Code(0, 4, <<Plain("Pass")>>),
    Code(0, 5, <<Docstring>>), Code(0, 99, <<Docstring>>), Code(0, 100, <<Docstring>>),
    Code(0, 1, <<Stmt("Expr", 0, <<>>, <<>>, "int")>>),
    Code(0, 19, <<Assign("Assign", <<Name(<<"__version__">>)>>)>>),
    Code(0, 120, <<Assign("Assign", <<Name(<<"__version__">>)>>)>>),
    Code(0, 19, <<Assign("Assign", <<Name(<<"x">>), Name(<<"__version__">>), Name(<<"__all__">>)>>)>>),
    Code(0, 12, <<Assign("AugAssign", <<Name(<<"__all__">>)>>)>>),
    Code(0, 12, <<Assign("Assign", <<Name(<<"__all__">>), Name(<<"EXPORTED_MODULES">>)>>)>>),
    Code(0, 20, <<Assign("AnnAssign", <<Name(<<"MY_", "EXPORTED_MODULES", "_MAP">>)>>)>>),
    Code(0, 12, <<Assign("Assign", <<Name(<<"FUNC", "_MAP">>)>>)>>),
    Code(0, 12, <<Assign("Assign", <<Name(<<"_MAP", "S">>)>>)>>),
    Code(0, 12, <<Assign("Assign", <<[kind |-> "Attribute", id |-> <<"__version__">>]>>)>>),
    Code(0, 9, <<Import, Assign("Assign", <<Name(<<"x">>)>>)>>) }

NestedLines ==
  { Code(1, 15, <<ImportFrom(1, <<"x">>)>>),
    Code(1, 9, <<Import>>),
    Code(1, 8, <<Plain("ClassDef")>>),
    Code(2, 16, <<ImportFrom(3, <<>>)>>),
    Code(2, 5, <<Docstring>>) }

Opens(line) ==
  /\ line.kind = "code"
  /\ Last(line.stmts).type \in {"FunctionDef", "AsyncFunctionDef", "ClassDef", "If"}

\* Indentation the parser accepts: a line is nested one deeper than the line
\* before it only when that line opens a block.
WellNested(lines) ==
  \A i \in 1..Len(lines) :
    /\ lines[i].depth > 0 =>
         /\ i > 1
         /\ \/ lines[i - 1].depth >= lines[i].depth
            \/ lines[i - 1].depth = lines[i].depth - 1 /\ Opens(lines[i - 1])
    /\ (i > 1 /\ Opens(lines[i - 1])) => lines[i].depth = lines[i - 1].depth + 1
    /\ (i = Len(lines)) => ~Opens(lines[i])

Filler(n) == [i \in 1..n |-> Code(0, 1, <<Stmt("Expr", 0, <<>>, <<>>, "name")>>)]

\* Files of up to MaxStmts lines, and files of at most one such line followed
\* by enough one-character statements to come near the line threshold.
PyHeads(n) == {h \in SeqsUpTo(TopLines \cup NestedLines, n) : WellNested(h)}

PySources ==
  {PyFile(FALSE, <<>>)}
    \cup {PyFile(TRUE, head) : head \in PyHeads(MaxStmts)}
    \cup {PyFile(TRUE, head \o Filler(n)) :
            head \in PyHeads(1),
            n \in {MIN_SUBSTANTIVE_LINES - 2, MIN_SUBSTANTIVE_LINES - 1}}

\* The files of the runs over several files.
LintSamples ==
  { PyFile(FALSE, <<>>),
    PyFile(TRUE, <<>>),
    PyFile(TRUE, <<Code(0, 19, <<ImportFrom(0, <<"a">>)>>)>>),
    PyFile(TRUE, <<Code(0, 15, <<ImportFrom(1, <<>>)>>)>>),
    PyFile(TRUE, <<Code(0, 100, <<Docstring>>)>>),
    PyFile(TRUE, <<Code(0, 100, <<Docstring>>),
                   Code(0, 31, <<ImportFrom(1, <<>>), ImportFrom(1, <<>>)>>)>>),
    PyFile(TRUE, <<Code(0, 9, <<Plain("FunctionDef")>>),
                   Code(1, 15, <<ImportFrom(1, <<"x">>)>>)>> \o Filler(9)
                   \o <<Code(0, 100, <<Docstring>>), Code(0, 15, <<ImportFrom(1, <<>>)>>)>>),
    PyFile(TRUE, <<PyLine("bad", 0, 7, <<>>)>> \o Filler(MIN_SUBSTANTIVE_LINES)) }

StaleReports(check) ==
  { NoReport,
    [exists |-> TRUE,
     lines |-> <<ReportHeader(check), ViolationsLine,
                 format_issue(FilePaths[4], 7, <<"syntax error in __init__.py">>)>>] }

InitLint ==
  /\ IdleMain
  /\ platform = "linux"
  /\ \E check \in Checks :
       \/ \E f \in PySources : call = LintCall(check, <<f>>, NoReport)
       \/ \E sources \in SeqsUpTo(LintSamples, MaxFiles) :
            \E report \in StaleReports(check) :
              call = LintCall(check, sources, report)

NextLint == ResetReport \/ TestFile

SpecLint == InitLint /\ [][NextLint]_vars

-----------------------------------------------------------------------------
(* Properties of the lint checks.                                             *)

\* The files a lint call has tested so far, by their position.
Tested == IF call.fn = "lint" THEN 1..Len(call.results) ELSE {}

SourceOf(i) ==
  IF call.params[i] = NoFilePath THEN PyFile(TRUE, <<>>) ELSE call.sources[i]

Parses(file) ==
  file.decodes /\ \A i \in 1..Len(file.lines) : file.lines[i].kind \notin {"bad", "bad_no_lineno"}

\* The relative from-imports of a file, each by its line and its place on it.
RelativeImports(file) ==
  {<<i, k>> \in (1..Len(file.lines)) \X (1..MaxStmts) :
     /\ k <= Len(file.lines[i].stmts)
     /\ file.lines[i].stmts[k].type = "ImportFrom"
     /\ file.lines[i].stmts[k].level > 0}

Reference(stmt) == [n \in 1..stmt.level |-> "."] \o stmt.module

\* C21: find_relative_imports reports one finding for every from-import
\* statement of level greater than zero, at any nesting depth, with the line
\* of the statement and the reference made of 'level' dots and the module
\* name, and reports nothing else.
C21_RelativeImports ==
  \A j \in Tested :
    (call.check = "import_dot" /\ Parses(SourceOf(j))) =>
      LET file == SourceOf(j)
          matches == call.results[j].found.matches
          rel == RelativeImports(file)
          finding(p) == [line_no |-> p[1],
                         message |-> <<"relative import from ">>
                                       \o Reference(file.lines[p[1]].stmts[p[2]])]
      IN /\ ~call.results[j].found.raises
         /\ Len(matches) = Cardinality(rel)
         /\ \A p \in rel :
              Cardinality({n \in 1..Len(matches) : matches[n] = finding(p)})
                = Cardinality({q \in rel : finding(q) = finding(p)})

C21_Witness ==
  \E j \in Tested :
    /\ call.check = "import_dot"
    /\ Parses(SourceOf(j))
    /\ \E p \in RelativeImports(SourceOf(j)) : SourceOf(j).lines[p[1]].depth > 0
    /\ \E i \in 1..Len(SourceOf(j).lines) :
         \E k \in 1..Len(SourceOf(j).lines[i].stmts) :
           SourceOf(j).lines[i].stmts[k].type \in {"Import", "FunctionDef"}
    /\ Len(call.results[j].found.matches) >= 1

\* The line a SyntaxError of the parser reports, 0 when it reports none.
ErrorLine(file) ==
  LET bad == {i \in 1..Len(file.lines) : file.lines[i].kind \in {"bad", "bad_no_lineno"}}
      at == CHOOSE i \in bad : \A k \in bad : i <= k
  IN IF file.lines[at].kind = "bad" THEN at ELSE 0

\* C22: for a file whose source fails to parse, the relative-import check
\* yields no findings and the file passes, and the __init__.py check yields
\* the one finding 'syntax error in __init__.py' at the line the error
\* reports, line 1 when it reports none.
C22_ParseFailure ==
  \A j \in Tested :
    (call.params[j] # NoFilePath /\ ~Parses(SourceOf(j))) =>
      LET result == call.results[j]
      IN IF call.check = "import_dot"
         THEN /\ ~result.found.raises
              /\ result.found.matches = <<>>
              /\ result.outcome = "passed"
         ELSE /\ ~result.found.raises
              /\ Len(result.found.matches) = 1
              /\ result.found.matches[1].message = <<"syntax error in __init__.py">>
              /\ SourceOf(j).decodes =>
                   result.found.matches[1].line_no
                     = (IF ErrorLine(SourceOf(j)) = 0 THEN 1 ELSE ErrorLine(SourceOf(j)))

\* A file the shape check has something to say about once it looks at it.
Flaggable(file) ==
  \/ ~Parses(file)
  \/ \E i \in 1..Len(file.lines) :
       /\ file.lines[i].depth = 0
       /\ \E k \in 1..Len(file.lines[i].stmts) :
            ~(file.lines[i].stmts[k].type = "Expr" /\ file.lines[i].stmts[k].value = "str")

BelowBoth(file) ==
  /\ count_substantive_lines(file.lines) < MIN_SUBSTANTIVE_LINES
  /\ StrippedChars(file.lines) < MIN_CONTENT_CHARS

\* C23: an __init__.py whose text has fewer than 20 non-blank, non-comment
\* lines and fewer than 100 characters once stripped gets no finding whatever
\* it holds; a file that reaches either threshold is checked.
C23_Exemption ==
  \A j \in Tested :
    (call.check = "init" /\ call.params[j] # NoFilePath /\ SourceOf(j).decodes) =>
      LET file == SourceOf(j)
          found == call.results[j].found
      IN /\ ~found.raises
         /\ BelowBoth(file) => found.matches = <<>>
         /\ (~BelowBoth(file) /\ Flaggable(file)) => found.matches # <<>>

C23_Witness ==
  \E j \in Tested :
    /\ call.check = "init"
    /\ SourceOf(j).decodes
    /\ count_substantive_lines(SourceOf(j).lines) = MIN_SUBSTANTIVE_LINES
    /\ StrippedChars(SourceOf(j).lines) < MIN_CONTENT_CHARS
    /\ call.results[j].found.matches # <<>>

\* The top-level statements of a file, each by its line and its place on it.
TopStatements(file) ==
  {<<i, k>> \in (1..Len(file.lines)) \X (1..MaxStmts) :
     file.lines[i].depth = 0 /\ k <= Len(file.lines[i].stmts)}

StmtAt(file, p) == file.lines[p[1]].stmts[p[2]]

IsString(stmt) == stmt.type = "Expr" /\ stmt.value = "str"

Leading(file, p) ==
  \A q \in TopStatements(file) : q[1] > p[1] \/ (q[1] = p[1] /\ q[2] >= p[2])

\* The message the statement kinds are given, in the order of priority.
MessageFor(stmt) ==
  LET ids == {stmt.targets[n].id : n \in {m \in 1..Len(stmt.targets) : stmt.targets[m].kind = "Name"}}
  IN CASE stmt.type \in {"Import", "ImportFrom"} -> "imports are not allowed in __init__.py"
       [] stmt.type \in {"FunctionDef", "AsyncFunctionDef", "ClassDef"}
            -> "definitions are not allowed in __init__.py"
       [] stmt.type \in {"Assign", "AnnAssign", "AugAssign"} ->
            CASE <<"__version__">> \in ids -> "__version__ must not be assigned in __init__.py"
              [] <<"__version__">> \notin ids /\ <<"__all__">> \in ids
                   -> "__all__ is not allowed in __init__.py"
              [] ids \cap {<<"__version__">>, <<"__all__">>} = {}
                 /\ (\E id \in ids : \E n \in 1..Len(id) : id[n] = "EXPORTED_MODULES")
                   -> "manual export lists are not allowed in __init__.py"
              [] ids \cap {<<"__version__">>, <<"__all__">>} = {}
                 /\ ~(\E id \in ids : \E n \in 1..Len(id) : id[n] = "EXPORTED_MODULES")
                 /\ (\E id \in ids : id[Len(id)] = "_MAP")
                   -> "function/class maps are not allowed in __init__.py"
              [] OTHER -> "global assignments are not allowed in __init__.py"
       [] stmt.type = "If" -> "conditional logic is not allowed in __init__.py"
       [] OTHER -> "implementation code is not allowed in __init__.py"

\* C24: in a checked __init__.py that parses, a lone string literal yields no
\* finding; otherwise every top-level statement but a leading docstring
\* yields exactly one finding at its line, with the message of its kind.
C24_StatementFindings ==
  \A j \in Tested :
    (/\ call.check = "init"
     /\ call.params[j] # NoFilePath
     /\ Parses(SourceOf(j))
     /\ ~BelowBoth(SourceOf(j))) =>
      LET file == SourceOf(j)
          matches == call.results[j].found.matches
          top == TopStatements(file)
          flagged == {p \in top : ~(IsString(StmtAt(file, p)) /\ Leading(file, p))}
          finding(p) == [line_no |-> p[1], message |-> <<MessageFor(StmtAt(file, p))>>]
      IN IF Cardinality(top) = 1 /\ \A p \in top : IsString(StmtAt(file, p))
         THEN matches = <<>>
         ELSE /\ Len(matches) = Cardinality(flagged)
              /\ \A p \in flagged :
                   Cardinality({n \in 1..Len(matches) : matches[n] = finding(p)})
                     = Cardinality({q \in flagged : finding(q) = finding(p)})

IsPrefix(s, t) == Len(s) <= Len(t) /\ SubSeq(t, 1, Len(s)) = s

\* A report line of the form path:line: message.
IsViolationLine(text) ==
  \E path \in Range(FilePaths) :
    \E n \in 1..(MIN_SUBSTANTIVE_LINES + MaxStmts + 1) :
      LET front == <<path, ":">> \o Decimal(n) \o <<":", " ">>
      IN IsPrefix(front, text) /\ Len(text) > Len(front)

\* The violations the files tested so far have contributed, in their order.
RECURSIVE Contributed(_)
Contributed(j) ==
  IF j = 0 THEN <<>>
  ELSE Contributed(j - 1)
         \o (IF call.results[j].raised = "AssertionError" THEN call.results[j].issues
             ELSE <<>>)

\* C25: after the reset of a run, a report that exists starts with the header
\* line and the 'Violations:' line, each met once; every later line is a
\* violation path:line: message; each offending file has added its violations
\* without duplicates and in order; what an earlier file added stays.
C25_ReportShape ==
  (call.fn = "lint" /\ call.pos >= 1) =>
    LET lines == call.report.lines
        heading == <<ReportHeader(call.check), ViolationsLine>>
    IN /\ ~call.report.exists => Contributed(Len(call.results)) = <<>>
       /\ call.report.exists =>
            /\ lines = heading \o Contributed(Len(call.results))
            /\ \A n \in 3..Len(lines) :
                 IsViolationLine(lines[n]) /\ lines[n] \notin Range(heading)
       /\ \A j \in Tested :
            LET issues == call.results[j].issues
                matches == call.results[j].found.matches
            IN /\ IsPrefix(call.results[j].report.lines, lines)
               /\ call.results[j].raised = "AssertionError" =>
                    /\ Range(issues)
                         = {format_issue(call.params[j], matches[n].line_no, matches[n].message)
                              : n \in 1..Len(matches)}
                    /\ \A n \in 1..(Len(issues) - 1) :
                         issues[n] # issues[n + 1] /\ TextLess(issues[n], issues[n + 1])

C25_Witness ==
  /\ call.fn = "lint"
  /\ call.pos > Len(call.params)
  /\ \E i \in Tested : \E j \in Tested :
       /\ i < j
       /\ call.results[i].raised = "AssertionError"
       /\ call.results[j].raised = "AssertionError"
       /\ Len(call.results[j].issues) < Len(call.results[j].found.matches)
       /\ Len(call.results[i].issues) >= 2
  /\ Len(call.report.lines) >= 5

ReportBefore(j) == IF j = 1 THEN NoReport ELSE call.results[j - 1].report

\* C26: a lint check fails for a file exactly when the file has a finding:
\* the failure is the one assertion naming the report by its path relative
\* to the repo root, a file without finding passes and leaves the report
\* alone, and the files after a failing one are tested all the same.
C26_FailsIffFinding ==
  call.fn = "lint" =>
    /\ call.pos >= 1 => Len(call.results) = call.pos - 1
    /\ \A j \in Tested :
         LET result == call.results[j]
         IN /\ result.outcome = "failed" <=> result.found.matches # <<>>
            /\ result.outcome = "failed" =>
                 /\ result.raised = "AssertionError"
                 /\ result.display_report = REPORT_NAME(call.check)
                 /\ result.report.exists
            /\ result.outcome = "passed" => result.report = ReportBefore(j)

\* C27: deduplicate_gitignore compares entries without their surrounding
\* whitespace: of the non-blank lines that differ in leading or trailing
\* whitespace only, the first alone is left after a real run.
C27_SurroundingWhitespace ==
  (GitignoreAt(call.dedup) /\ ~call.dry /\ call.dedup.input.exists)
    => LET kept == call.dedup.r.file.lines
       IN \A i \in 1..Len(kept) : \A j \in 1..Len(kept) :
            (i < j /\ kept[i].text # "") => Strip(kept[i]) # Strip(kept[j])

\* ------------------------------------------------------------------------
\* The run as a whole, continued
\* ------------------------------------------------------------------------
\* C28: when a real run has ended, no repo it processed holds, in its tests
\* directory, a file with a name of the deprecated test-script list,
\* whatever the source tests directory holds.
C28_NoDeprecatedTests ==
  (RunDone /\ ~dry_run) =>
    \A i \in 1..Len(repo_dirs) :
      is_repo_dir(repo_dirs[i]) =>
        \A d \in Range(DEPRECATED_TEST_SCRIPTS) :
          files[<<repo_dirs[i], "tests", d>>] = "absent"

\* ------------------------------------------------------------------------
\* AGENTS.md, continued
\* ------------------------------------------------------------------------
\* C29: right after a real-run ensure_agents_file, whether it created the
\* file or patched it, the same call on the same platform returns False and
\* leaves the file as it is.
C29_AgentsIdempotent ==
  (call.fn = "ensure_agents_file" /\ call.at = "again" /\ ~call.dry) =>
    /\ ~call.again.changed
    /\ call.again.agents = call.r.agents

\* a file patched on macOS, and a file created
C29_Witness ==
  /\ call.fn = "ensure_agents_file" /\ call.at = "again" /\ ~call.dry
  /\ call.r.changed
  /\ \/ /\ call.a0.exists /\ is_macos
        /\ Len(call.r.agents.lines) > Len(call.a0.lines) + 2
     \/ ~call.a0.exists

\* ------------------------------------------------------------------------
\* The counters
\* ------------------------------------------------------------------------
\* The outcome counters of a file class, errors apart.
OutcomeCounters(cls) ==
  CASE cls = "styles" -> {"skipped_source", "skipped_same", "copied", "updated"}
    [] cls = "tests" -> {"skipped_tests_no_python", "skipped_source_tests",
                         "skipped_same_tests", "copied_tests", "updated_tests"}
    [] cls = "devel" -> {"skipped_devel_no_pyproject", "skipped_source_devel",
                         "skipped_same_devel", "copied_devel", "updated_devel"}

RECURSIVE SumOf(_)
SumOf(S) ==
  IF S = {} THEN 0
  ELSE LET c == CHOOSE x \in S : TRUE IN counts[c] + SumOf(S \ {c})

ClassSize(cls) ==
  CASE cls = "styles" -> Len(STYLE_FILES)
    [] cls = "tests" -> Len(test_scripts)
    [] cls = "devel" -> Len(DEVEL_SCRIPTS)

ValidRepos == Cardinality({i \in 1..Len(repo_dirs) : is_repo_dir(repo_dirs[i])})

\* what the files of a class still lack at the end: the files that errored
Shortfall(cls) == ValidRepos * ClassSize(cls) - SumOf(OutcomeCounters(cls))

\* C30: the counters start at zero and never decrease; every managed file of
\* every valid repo adds one to exactly one outcome counter of its class or
\* to errors, so that at the end of a run the outcome counters of a class and
\* its errors add up to repos times files; a directory without .git adds one
\* to skipped_non_repo and nothing else changes.
C30_CounterAccounting ==
  /\ [](pc = "setup" /\ run = 1 => counts = ZeroCounts)
  /\ [][/\ (pc = "setup" /\ pc' = "loop") => counts' = ZeroCounts
        /\ pc # "setup" => \A c \in CounterNames : counts'[c] >= counts[c]
        /\ (pc \in SyncPositions /\ pc' # "crashed") =>
             \E c \in OutcomeCounters(pc) \cup {"errors"} : counts' = Inc(counts, c)
        /\ (pc = "loop" /\ ri <= Len(repo_dirs) /\ ~is_repo_dir(Repo)) =>
             /\ counts' = Inc(counts, "skipped_non_repo")
             /\ FS' = FS]_vars
  /\ [](RunDone =>
          /\ \A cls \in Classes : Shortfall(cls) >= 0
          /\ Shortfall("styles") + Shortfall("tests") + Shortfall("devel")
               <= counts["errors"]
          /\ counts["errors"]
               <= Shortfall("styles") + Shortfall("tests") + Shortfall("devel")
                    + ValidRepos
          /\ counts["skipped_non_repo"] = Len(repo_dirs) - ValidRepos)

C30_Witness ==
  /\ RunDone
  /\ ValidRepos = 2
  /\ counts["errors"] >= 1
  /\ Shortfall("tests") = 1
  /\ counts["skipped_source_tests"] > 0
  /\ counts["skipped_devel_no_pyproject"] > 0
====
